---- MODULE Spec2Model ----
(***************************************************************************)
(* Model of Design/sim/itch_parser.py: the ITCH type registry, the         *)
(* byte-at-a-time frame assembler (ITCHParser), the fixed-offset field     *)
(* decoder and the gen_* frame encoders, driven by a harness that builds   *)
(* messages and feeds them the way run_tests and the class docstring do.   *)
(***************************************************************************)
EXTENDS Integers, Sequences, FiniteSets, TLC

VARIABLES
    byte_index,   \* ITCHParser.byte_index
    msg_type,     \* ITCHParser.msg_type: None or Some(kind)
    msg_length,   \* ITCHParser.msg_length
    buffer,       \* ITCHParser.buffer
    _result,      \* ITCHParser._result
    msg,          \* harness: the message being fed (bytes)
    args,         \* harness: how msg was built (encoder arguments or raw pattern)
    pos,          \* harness: number of bytes of msg already fed
    junk,         \* harness: unrecognized bytes fed in front of msg
    rets,         \* harness: what each feed_byte call for junk and msg returned
    nmsgs,        \* harness: messages built so far
    pm,           \* harness: the last parse_message call (input, outcome)
    two           \* two ITCHParser objects, the calls made on each and
                  \* what the calls returned

vars == <<byte_index, msg_type, msg_length, buffer, _result,
          msg, args, pos, junk, rets, nmsgs, pm, two>>

oneVars == <<byte_index, msg_type, msg_length, buffer, _result,
             msg, args, pos, junk, rets, nmsgs, pm>>

parserVars == <<byte_index, msg_type, msg_length, buffer, _result>>

----------------------------------------------------------------------------
(* Bounds of the harness.                                                  *)

MaxMsgs == 2
MaxJunk == 2

----------------------------------------------------------------------------
(* Python integers.  TLC's integers are 32 bits wide, the fields are up to *)
(* 64 bits wide, so an int is a sign and a magnitude held as little-endian *)
(* limbs in base 2^16 without leading zero limbs.                          *)

Base == 256 * 256

Byte == 0 .. 255

Nat_(limbs) == [neg |-> FALSE, mag |-> limbs]

Neg_(limbs) == [neg |-> TRUE, mag |-> limbs]

Zero == Nat_(<< >>)

RECURSIVE MulAdd256(_, _)
\* mag * 256 + c, limb by limb with carry
MulAdd256(mag, c) ==
    IF mag = << >>
    THEN IF c = 0 THEN << >> ELSE <<c>>
    ELSE LET x == Head(mag) * 256 + c
         IN  <<x % Base>> \o MulAdd256(Tail(mag), x \div Base)

RECURSIVE Strip(_)
\* drop the zero limbs at the most significant end
Strip(mag) ==
    IF mag = << >> THEN << >>
    ELSE IF mag[Len(mag)] = 0 THEN Strip(SubSeq(mag, 1, Len(mag) - 1))
    ELSE mag

\* mag \div 256
Div256(mag) ==
    Strip([i \in 1 .. Len(mag) |->
             (mag[i] \div 256)
             + (IF i < Len(mag) THEN (mag[i + 1] % 256) * 256 ELSE 0)])

\* mag % 256
Mod256(mag) == IF mag = << >> THEN 0 ELSE Head(mag) % 256

RECURSIVE from_bytes_acc(_, _)
from_bytes_acc(bs, acc) ==
    IF bs = << >> THEN acc
    ELSE from_bytes_acc(Tail(bs), MulAdd256(acc, Head(bs)))

RECURSIVE reverse(_)
reverse(bs) == IF bs = << >> THEN << >> ELSE Append(reverse(Tail(bs)), Head(bs))

\* int.from_bytes(bs, 'little')
from_bytes_little(bs) == Nat_(from_bytes_acc(reverse(bs), << >>))

\* int.from_bytes(bs, 'big')
from_bytes(bs) == Nat_(from_bytes_acc(bs, << >>))

RECURSIVE to_bytes_acc(_, _, _)
to_bytes_acc(mag, n, out) ==
    IF n = 0 THEN [rest |-> mag, bytes |-> out]
    ELSE to_bytes_acc(Div256(mag), n - 1, <<Mod256(mag)>> \o out)

\* v.to_bytes(n, 'big') keeping the low n bytes of the magnitude instead of
\* raising
to_bytes_wrap(v, n) ==
    [raised |-> "", bytes |-> to_bytes_acc(v.mag, n, << >>).bytes]

\* v.to_bytes(n, 'big'): the bytes, or OverflowError for a negative int or
\* one that does not fit n bytes
to_bytes(v, n) ==
    LET r == to_bytes_acc(v.mag, n, << >>)
    IN  IF v.neg /\ v.mag # << >> THEN [raised |-> "OverflowError", bytes |-> << >>]
        ELSE IF r.rest # << >> THEN [raised |-> "OverflowError", bytes |-> << >>]
        ELSE [raised |-> "", bytes |-> r.bytes]

\* s[a:b] of Python: 0-based, half-open, clamped to the length
Slice(s, a, b) ==
    LET hi == IF b < Len(s) THEN b ELSE Len(s)
    IN  IF a >= hi THEN << >> ELSE SubSeq(s, a + 1, hi)

----------------------------------------------------------------------------
(* Type registry.                                                          *)

ADD_ORDER == 0
CANCEL_ORDER == 1
DELETE_ORDER == 2
EXECUTED_ORDER == 3
REPLACE_ORDER == 4
TRADE == 5
ADD_ORDER_MPID == 6
EXECUTED_PRICE == 7
BROKEN_TRADE == 8

MessageType == {ADD_ORDER, CANCEL_ORDER, DELETE_ORDER, EXECUTED_ORDER,
                REPLACE_ORDER, TRADE, ADD_ORDER_MPID, EXECUTED_PRICE,
                BROKEN_TRADE}

\* ord() of the characters the source writes as literals
ord_A == 65
ord_B == 66
ord_C == 67
ord_D == 68
ord_E == 69
ord_F == 70
ord_N == 78
ord_P == 80
ord_S == 83
ord_U == 85
ord_X == 88
ord_Y == 89
ord_space == 32

\* the table with the kinds of 'X' and 'D' exchanged
MSG_CHAR_TO_TYPE_swapped ==
    (ord_A :> ADD_ORDER) @@ (ord_X :> DELETE_ORDER) @@ (ord_D :> CANCEL_ORDER)
    @@ (ord_E :> EXECUTED_ORDER) @@ (ord_U :> REPLACE_ORDER) @@ (ord_P :> TRADE)
    @@ (ord_F :> ADD_ORDER_MPID) @@ (ord_C :> EXECUTED_PRICE)
    @@ (ord_B :> BROKEN_TRADE)

MSG_CHAR_TO_TYPE ==
    (ord_A :> ADD_ORDER) @@ (ord_X :> CANCEL_ORDER) @@ (ord_D :> DELETE_ORDER)
    @@ (ord_E :> EXECUTED_ORDER) @@ (ord_U :> REPLACE_ORDER) @@ (ord_P :> TRADE)
    @@ (ord_F :> ADD_ORDER_MPID) @@ (ord_C :> EXECUTED_PRICE)
    @@ (ord_B :> BROKEN_TRADE)

\* the table with the 44 bytes of the full-width Trade message
MSG_LENGTHS_trade44 ==
    (ADD_ORDER :> 36) @@ (CANCEL_ORDER :> 23) @@ (DELETE_ORDER :> 9)
    @@ (EXECUTED_ORDER :> 30) @@ (REPLACE_ORDER :> 27) @@ (TRADE :> 44)
    @@ (ADD_ORDER_MPID :> 40) @@ (EXECUTED_PRICE :> 36) @@ (BROKEN_TRADE :> 19)

MSG_LENGTHS ==
    (ADD_ORDER :> 36) @@ (CANCEL_ORDER :> 23) @@ (DELETE_ORDER :> 9)
    @@ (EXECUTED_ORDER :> 30) @@ (REPLACE_ORDER :> 27) @@ (TRADE :> 40)
    @@ (ADD_ORDER_MPID :> 40) @@ (EXECUTED_PRICE :> 36) @@ (BROKEN_TRADE :> 19)

\* MSG_LENGTHS of ITCH_config.py with the 31 bytes of the full-width
\* executed message
ITCH_config_MSG_LENGTHS_executed31 ==
    ("add" :> 36) @@ ("cancel" :> 23) @@ ("replace" :> 27) @@ ("delete" :> 9)
    @@ ("executed" :> 31) @@ ("trade" :> 40) @@ ("add_mpid" :> 40)
    @@ ("broken_trade" :> 19) @@ ("executed_price" :> 36)

\* MSG_LENGTHS of ITCH_config.py, keyed by message name
ITCH_config_MSG_LENGTHS ==
    ("add" :> 36) @@ ("cancel" :> 23) @@ ("replace" :> 27) @@ ("delete" :> 9)
    @@ ("executed" :> 30) @@ ("trade" :> 40) @@ ("add_mpid" :> 40)
    @@ ("broken_trade" :> 19) @@ ("executed_price" :> 36)

----------------------------------------------------------------------------
(* ParsedMessage and the parser object.                                    *)

\* Optional[MessageType]
None == << >>

Some(k) == <<k>>

\* ParsedMessage with None for the msg_type of every invalid message
ParsedMessage_none(v, t) ==
    [valid |-> v, msg_type |-> IF v THEN t ELSE << >>, order_ref |-> Zero,
     side |-> 0, shares |-> Zero, price |-> Zero, new_order_ref |-> Zero,
     timestamp |-> Zero, misc_data |-> Zero]

\* ParsedMessage(valid=v, msg_type=t) with the dataclass defaults of the
\* other fields; msg_type holds a Python value, None or Some(int), and
\* defaults to the int 0
ParsedMessage(v, t) ==
    [valid |-> v, msg_type |-> t, order_ref |-> Zero, side |-> 0,
     shares |-> Zero, price |-> Zero, new_order_ref |-> Zero,
     timestamp |-> Zero, misc_data |-> Zero]

\* the attribute values reset() assigns
reset(self) ==
    [byte_index |-> 0, msg_type |-> None, msg_length |-> 0,
     buffer |-> << >>, _result |-> ParsedMessage(FALSE, Some(0))]

\* buf[i] of Python (0-based)
At(buf, i) == buf[i + 1]

\* _decode_message reading the canceled shares of CANCEL_ORDER one byte late
_decode_message_late(self) ==
    LET m    == ParsedMessage(TRUE, self.msg_type)
        buf  == self.buffer
        k    == self.msg_type
        f(a, b) == from_bytes(Slice(buf, a, b))
        sd   == IF At(buf, 15) = ord_S THEN 1 ELSE 0
    IN  IF k = Some(DELETE_ORDER) THEN
            [m EXCEPT !.order_ref = f(1, 9)]
        ELSE IF k = Some(ADD_ORDER) THEN
            [m EXCEPT !.timestamp = f(1, 7), !.order_ref = f(7, 15),
                      !.side = sd, !.shares = f(16, 20),
                      !.misc_data = f(20, 28), !.price = f(28, 32)]
        ELSE IF k = Some(CANCEL_ORDER) THEN
            [m EXCEPT !.timestamp = f(1, 7), !.order_ref = f(7, 15),
                      !.shares = f(16, 20)]
        ELSE IF k = Some(EXECUTED_ORDER) THEN
            [m EXCEPT !.timestamp = f(1, 7), !.order_ref = f(7, 15),
                      !.shares = f(15, 19), !.misc_data = f(19, 27)]
        ELSE IF k = Some(REPLACE_ORDER) THEN
            [m EXCEPT !.timestamp = f(1, 7), !.order_ref = f(7, 15),
                      !.new_order_ref = f(15, 23), !.shares = f(23, 27)]
        ELSE IF k = Some(TRADE) THEN
            [m EXCEPT !.timestamp = f(1, 7), !.order_ref = f(7, 15),
                      !.side = sd, !.shares = f(16, 20),
                      !.price = f(28, 32), !.misc_data = f(32, 40)]
        ELSE IF k = Some(ADD_ORDER_MPID) THEN
            [m EXCEPT !.timestamp = f(1, 7), !.order_ref = f(7, 15),
                      !.side = sd, !.shares = f(16, 20),
                      !.misc_data = f(20, 28), !.price = f(28, 32)]
        ELSE IF k = Some(EXECUTED_PRICE) THEN
            [m EXCEPT !.timestamp = f(1, 7), !.order_ref = f(7, 15),
                      !.shares = f(15, 19), !.misc_data = f(19, 27),
                      !.price = f(28, 32)]
        ELSE IF k = Some(BROKEN_TRADE) THEN
            [m EXCEPT !.timestamp = f(1, 7), !.misc_data = f(7, 15)]
        ELSE m

\* _decode_message taking the printable byte of EXECUTED_PRICE, buf[27], as
\* the last byte of the match_id
_decode_message_flag(self) ==
    LET m    == ParsedMessage(TRUE, self.msg_type)
        buf  == self.buffer
        k    == self.msg_type
        f(a, b) == from_bytes(Slice(buf, a, b))
        sd   == IF At(buf, 15) = ord_S THEN 1 ELSE 0
    IN  IF k = Some(DELETE_ORDER) THEN
            [m EXCEPT !.order_ref = f(1, 9)]
        ELSE IF k = Some(ADD_ORDER) THEN
            [m EXCEPT !.timestamp = f(1, 7), !.order_ref = f(7, 15),
                      !.side = sd, !.shares = f(16, 20),
                      !.misc_data = f(20, 28), !.price = f(28, 32)]
        ELSE IF k = Some(CANCEL_ORDER) THEN
            [m EXCEPT !.timestamp = f(1, 7), !.order_ref = f(7, 15),
                      !.shares = f(15, 19)]
        ELSE IF k = Some(EXECUTED_ORDER) THEN
            [m EXCEPT !.timestamp = f(1, 7), !.order_ref = f(7, 15),
                      !.shares = f(15, 19), !.misc_data = f(19, 27)]
        ELSE IF k = Some(REPLACE_ORDER) THEN
            [m EXCEPT !.timestamp = f(1, 7), !.order_ref = f(7, 15),
                      !.new_order_ref = f(15, 23), !.shares = f(23, 27)]
        ELSE IF k = Some(TRADE) THEN
            [m EXCEPT !.timestamp = f(1, 7), !.order_ref = f(7, 15),
                      !.side = sd, !.shares = f(16, 20),
                      !.price = f(28, 32), !.misc_data = f(32, 40)]
        ELSE IF k = Some(ADD_ORDER_MPID) THEN
            [m EXCEPT !.timestamp = f(1, 7), !.order_ref = f(7, 15),
                      !.side = sd, !.shares = f(16, 20),
                      !.misc_data = f(20, 28), !.price = f(28, 32)]
        ELSE IF k = Some(EXECUTED_PRICE) THEN
            [m EXCEPT !.timestamp = f(1, 7), !.order_ref = f(7, 15),
                      !.shares = f(15, 19), !.misc_data = f(19, 28),
                      !.price = f(28, 32)]
        ELSE IF k = Some(BROKEN_TRADE) THEN
            [m EXCEPT !.timestamp = f(1, 7), !.misc_data = f(7, 15)]
        ELSE m

\* _decode_message taking every side byte but 'B' for a sell
_decode_message_notB(self) ==
    LET m    == ParsedMessage(TRUE, self.msg_type)
        buf  == self.buffer
        k    == self.msg_type
        f(a, b) == from_bytes(Slice(buf, a, b))
        sd   == IF At(buf, 15) = ord_B THEN 0 ELSE 1
    IN  IF k = Some(DELETE_ORDER) THEN
            [m EXCEPT !.order_ref = f(1, 9)]
        ELSE IF k = Some(ADD_ORDER) THEN
            [m EXCEPT !.timestamp = f(1, 7), !.order_ref = f(7, 15),
                      !.side = sd, !.shares = f(16, 20),
                      !.misc_data = f(20, 28), !.price = f(28, 32)]
        ELSE IF k = Some(CANCEL_ORDER) THEN
            [m EXCEPT !.timestamp = f(1, 7), !.order_ref = f(7, 15),
                      !.shares = f(15, 19)]
        ELSE IF k = Some(EXECUTED_ORDER) THEN
            [m EXCEPT !.timestamp = f(1, 7), !.order_ref = f(7, 15),
                      !.shares = f(15, 19), !.misc_data = f(19, 27)]
        ELSE IF k = Some(REPLACE_ORDER) THEN
            [m EXCEPT !.timestamp = f(1, 7), !.order_ref = f(7, 15),
                      !.new_order_ref = f(15, 23), !.shares = f(23, 27)]
        ELSE IF k = Some(TRADE) THEN
            [m EXCEPT !.timestamp = f(1, 7), !.order_ref = f(7, 15),
                      !.side = sd, !.shares = f(16, 20),
                      !.price = f(28, 32), !.misc_data = f(32, 40)]
        ELSE IF k = Some(ADD_ORDER_MPID) THEN
            [m EXCEPT !.timestamp = f(1, 7), !.order_ref = f(7, 15),
                      !.side = sd, !.shares = f(16, 20),
                      !.misc_data = f(20, 28), !.price = f(28, 32)]
        ELSE IF k = Some(EXECUTED_PRICE) THEN
            [m EXCEPT !.timestamp = f(1, 7), !.order_ref = f(7, 15),
                      !.shares = f(15, 19), !.misc_data = f(19, 27),
                      !.price = f(28, 32)]
        ELSE IF k = Some(BROKEN_TRADE) THEN
            [m EXCEPT !.timestamp = f(1, 7), !.misc_data = f(7, 15)]
        ELSE m

\* _decode_message with the misc_data of ADD_ORDER, the stock symbol, for
\* TRADE too
_decode_message_tradestock(self) ==
    LET m    == ParsedMessage(TRUE, self.msg_type)
        buf  == self.buffer
        k    == self.msg_type
        f(a, b) == from_bytes(Slice(buf, a, b))
        sd   == IF At(buf, 15) = ord_S THEN 1 ELSE 0
    IN  IF k = Some(DELETE_ORDER) THEN
            [m EXCEPT !.order_ref = f(1, 9)]
        ELSE IF k = Some(ADD_ORDER) THEN
            [m EXCEPT !.timestamp = f(1, 7), !.order_ref = f(7, 15),
                      !.side = sd, !.shares = f(16, 20),
                      !.misc_data = f(20, 28), !.price = f(28, 32)]
        ELSE IF k = Some(CANCEL_ORDER) THEN
            [m EXCEPT !.timestamp = f(1, 7), !.order_ref = f(7, 15),
                      !.shares = f(15, 19)]
        ELSE IF k = Some(EXECUTED_ORDER) THEN
            [m EXCEPT !.timestamp = f(1, 7), !.order_ref = f(7, 15),
                      !.shares = f(15, 19), !.misc_data = f(19, 27)]
        ELSE IF k = Some(REPLACE_ORDER) THEN
            [m EXCEPT !.timestamp = f(1, 7), !.order_ref = f(7, 15),
                      !.new_order_ref = f(15, 23), !.shares = f(23, 27)]
        ELSE IF k = Some(TRADE) THEN
            [m EXCEPT !.timestamp = f(1, 7), !.order_ref = f(7, 15),
                      !.side = sd, !.shares = f(16, 20),
                      !.misc_data = f(20, 28), !.price = f(28, 32)]
        ELSE IF k = Some(ADD_ORDER_MPID) THEN
            [m EXCEPT !.timestamp = f(1, 7), !.order_ref = f(7, 15),
                      !.side = sd, !.shares = f(16, 20),
                      !.misc_data = f(20, 28), !.price = f(28, 32)]
        ELSE IF k = Some(EXECUTED_PRICE) THEN
            [m EXCEPT !.timestamp = f(1, 7), !.order_ref = f(7, 15),
                      !.shares = f(15, 19), !.misc_data = f(19, 27),
                      !.price = f(28, 32)]
        ELSE IF k = Some(BROKEN_TRADE) THEN
            [m EXCEPT !.timestamp = f(1, 7), !.misc_data = f(7, 15)]
        ELSE m

_decode_message(self) ==
    LET m    == ParsedMessage(TRUE, self.msg_type)
        buf  == self.buffer
        k    == self.msg_type
        f(a, b) == from_bytes(Slice(buf, a, b))
        sd   == IF At(buf, 15) = ord_S THEN 1 ELSE 0
    IN  IF k = Some(DELETE_ORDER) THEN
            [m EXCEPT !.order_ref = f(1, 9)]
        ELSE IF k = Some(ADD_ORDER) THEN
            [m EXCEPT !.timestamp = f(1, 7), !.order_ref = f(7, 15),
                      !.side = sd, !.shares = f(16, 20),
                      !.misc_data = f(20, 28), !.price = f(28, 32)]
        ELSE IF k = Some(CANCEL_ORDER) THEN
            [m EXCEPT !.timestamp = f(1, 7), !.order_ref = f(7, 15),
                      !.shares = f(15, 19)]
        ELSE IF k = Some(EXECUTED_ORDER) THEN
            [m EXCEPT !.timestamp = f(1, 7), !.order_ref = f(7, 15),
                      !.shares = f(15, 19), !.misc_data = f(19, 27)]
        ELSE IF k = Some(REPLACE_ORDER) THEN
            [m EXCEPT !.timestamp = f(1, 7), !.order_ref = f(7, 15),
                      !.new_order_ref = f(15, 23), !.shares = f(23, 27)]
        ELSE IF k = Some(TRADE) THEN
            [m EXCEPT !.timestamp = f(1, 7), !.order_ref = f(7, 15),
                      !.side = sd, !.shares = f(16, 20),
                      !.price = f(28, 32), !.misc_data = f(32, 40)]
        ELSE IF k = Some(ADD_ORDER_MPID) THEN
            [m EXCEPT !.timestamp = f(1, 7), !.order_ref = f(7, 15),
                      !.side = sd, !.shares = f(16, 20),
                      !.misc_data = f(20, 28), !.price = f(28, 32)]
        ELSE IF k = Some(EXECUTED_PRICE) THEN
            [m EXCEPT !.timestamp = f(1, 7), !.order_ref = f(7, 15),
                      !.shares = f(15, 19), !.misc_data = f(19, 27),
                      !.price = f(28, 32)]
        ELSE IF k = Some(BROKEN_TRADE) THEN
            [m EXCEPT !.timestamp = f(1, 7), !.misc_data = f(7, 15)]
        ELSE m

\* feed_byte taking every byte that is a tag as the start of a frame,
\* whatever the byte counter is
feed_byte_retag(self, byte) ==
    IF self.byte_index = 0 /\ byte \notin DOMAIN MSG_CHAR_TO_TYPE
    THEN [self |-> reset(self), ret |-> ParsedMessage(FALSE, Some(0)), line |-> 144]
    ELSE
      LET s1 == IF byte \in DOMAIN MSG_CHAR_TO_TYPE
                THEN [self EXCEPT !.msg_type = Some(MSG_CHAR_TO_TYPE[byte]),
                                  !.msg_length = MSG_LENGTHS[MSG_CHAR_TO_TYPE[byte]],
                                  !.buffer = <<byte>>]
                ELSE [self EXCEPT !.buffer = Append(self.buffer, byte)]
          s2 == [s1 EXCEPT !.byte_index = s1.byte_index + 1]
      IN  IF s2.byte_index >= s2.msg_length
          THEN [self |-> reset(s2), ret |-> _decode_message(s2), line |-> 154]
          ELSE [self |-> s2, ret |-> ParsedMessage(FALSE, Some(0)), line |-> 156]

\* feed_byte without the reset() after a completed message
feed_byte_noreset(self, byte) ==
    IF self.byte_index = 0 /\ byte \notin DOMAIN MSG_CHAR_TO_TYPE
    THEN [self |-> reset(self), ret |-> ParsedMessage(FALSE, Some(0)), line |-> 144]
    ELSE
      LET s1 == IF self.byte_index = 0
                THEN [self EXCEPT !.msg_type = Some(MSG_CHAR_TO_TYPE[byte]),
                                  !.msg_length = MSG_LENGTHS[MSG_CHAR_TO_TYPE[byte]],
                                  !.buffer = <<byte>>]
                ELSE [self EXCEPT !.buffer = Append(self.buffer, byte)]
          s2 == [s1 EXCEPT !.byte_index = s1.byte_index + 1]
      IN  IF s2.byte_index >= s2.msg_length
          THEN [self |-> s2, ret |-> _decode_message(s2), line |-> 154]
          ELSE [self |-> s2, ret |-> ParsedMessage(FALSE, Some(0)), line |-> 156]

\* feed_byte completing a message one byte early
feed_byte_early(self, byte) ==
    IF self.byte_index = 0 /\ byte \notin DOMAIN MSG_CHAR_TO_TYPE
    THEN [self |-> reset(self), ret |-> ParsedMessage(FALSE, Some(0)), line |-> 144]
    ELSE
      LET s1 == IF self.byte_index = 0
                THEN [self EXCEPT !.msg_type = Some(MSG_CHAR_TO_TYPE[byte]),
                                  !.msg_length = MSG_LENGTHS[MSG_CHAR_TO_TYPE[byte]],
                                  !.buffer = <<byte>>]
                ELSE [self EXCEPT !.buffer = Append(self.buffer, byte)]
          s2 == [s1 EXCEPT !.byte_index = s1.byte_index + 1]
      IN  IF s2.byte_index >= s2.msg_length - 1
          THEN [self |-> reset(s2), ret |-> _decode_message(s2), line |-> 154]
          ELSE [self |-> s2, ret |-> ParsedMessage(FALSE, Some(0)), line |-> 156]

\* feed_byte testing the counter against the longest frame length, 40,
\* instead of the length of the frame's kind
feed_byte_maxlen(self, byte) ==
    IF self.byte_index = 0 /\ byte \notin DOMAIN MSG_CHAR_TO_TYPE
    THEN [self |-> reset(self), ret |-> ParsedMessage(FALSE, Some(0)), line |-> 144]
    ELSE
      LET s1 == IF self.byte_index = 0
                THEN [self EXCEPT !.msg_type = Some(MSG_CHAR_TO_TYPE[byte]),
                                  !.msg_length = MSG_LENGTHS[MSG_CHAR_TO_TYPE[byte]],
                                  !.buffer = <<byte>>]
                ELSE [self EXCEPT !.buffer = Append(self.buffer, byte)]
          s2 == [s1 EXCEPT !.byte_index = s1.byte_index + 1]
      IN  IF s2.byte_index >= 40
          THEN [self |-> reset(s2), ret |-> _decode_message(s2), line |-> 154]
          ELSE [self |-> s2, ret |-> ParsedMessage(FALSE, Some(0)), line |-> 156]

\* feed_byte with > for >= in the completion test: a frame completes one
\* byte late
feed_byte_late(self, byte) ==
    IF self.byte_index = 0 /\ byte \notin DOMAIN MSG_CHAR_TO_TYPE
    THEN [self |-> reset(self), ret |-> ParsedMessage(FALSE, Some(0)), line |-> 144]
    ELSE
      LET s1 == IF self.byte_index = 0
                THEN [self EXCEPT !.msg_type = Some(MSG_CHAR_TO_TYPE[byte]),
                                  !.msg_length = MSG_LENGTHS[MSG_CHAR_TO_TYPE[byte]],
                                  !.buffer = <<byte>>]
                ELSE [self EXCEPT !.buffer = Append(self.buffer, byte)]
          s2 == [s1 EXCEPT !.byte_index = s1.byte_index + 1]
      IN  IF s2.byte_index > s2.msg_length
          THEN [self |-> reset(s2), ret |-> _decode_message(s2), line |-> 154]
          ELSE [self |-> s2, ret |-> ParsedMessage(FALSE, Some(0)), line |-> 156]

\* feed_byte without the early return of the rejection branch: an unknown
\* first byte falls through to the counter and the completion test
feed_byte_fallthrough(self, byte) ==
    LET s1 == IF self.byte_index = 0
              THEN IF byte \in DOMAIN MSG_CHAR_TO_TYPE
                   THEN [self EXCEPT !.msg_type = Some(MSG_CHAR_TO_TYPE[byte]),
                                     !.msg_length = MSG_LENGTHS[MSG_CHAR_TO_TYPE[byte]],
                                     !.buffer = <<byte>>]
                   ELSE reset(self)
              ELSE [self EXCEPT !.buffer = Append(self.buffer, byte)]
        s2 == [s1 EXCEPT !.byte_index = s1.byte_index + 1]
    IN  IF s2.byte_index >= s2.msg_length
        THEN [self |-> reset(s2), ret |-> _decode_message(s2), line |-> 154]
        ELSE [self |-> s2, ret |-> ParsedMessage(FALSE, Some(0)), line |-> 156]

\* feed_byte: the object after the call, the value returned and the return
\* statement taken (source line 144, 154 or 156)
feed_byte(self, byte) ==
    IF self.byte_index = 0 /\ byte \notin DOMAIN MSG_CHAR_TO_TYPE
    THEN [self |-> reset(self), ret |-> ParsedMessage(FALSE, Some(0)), line |-> 144]
    ELSE
      LET s1 == IF self.byte_index = 0
                THEN [self EXCEPT !.msg_type = Some(MSG_CHAR_TO_TYPE[byte]),
                                  !.msg_length = MSG_LENGTHS[MSG_CHAR_TO_TYPE[byte]],
                                  !.buffer = <<byte>>]
                ELSE [self EXCEPT !.buffer = Append(self.buffer, byte)]
          s2 == [s1 EXCEPT !.byte_index = s1.byte_index + 1]
      IN  IF s2.byte_index >= s2.msg_length
          THEN [self |-> reset(s2), ret |-> _decode_message(s2), line |-> 154]
          ELSE [self |-> s2, ret |-> ParsedMessage(FALSE, Some(0)), line |-> 156]

\* the loop of parse_message without the test of result.valid: it returns
\* what the first feed_byte call returned
parse_message_loop_first(self, data, i) ==
    IF i >= Len(data)
    THEN [self |-> self, ret |-> ParsedMessage(FALSE, Some(0)), consumed |-> i]
    ELSE LET r == feed_byte(self, data[i + 1])
         IN  [self |-> r.self, ret |-> r.ret, consumed |-> i + 1]

RECURSIVE parse_message_loop_last(_, _, _)
\* the loop of parse_message without the return inside it: it goes through
\* all of data and returns the last valid result
parse_message_loop_last(self, data, i) ==
    IF i >= Len(data)
    THEN [self |-> self, ret |-> ParsedMessage(FALSE, Some(0)), consumed |-> i]
    ELSE LET r    == feed_byte(self, data[i + 1])
             rest == parse_message_loop_last(r.self, data, i + 1)
         IN  IF r.ret.valid /\ ~rest.ret.valid
             THEN [rest EXCEPT !.ret = r.ret]
             ELSE rest

RECURSIVE parse_message_loop(_, _, _)
\* the for loop of parse_message over data[i..], i bytes already consumed
parse_message_loop(self, data, i) ==
    IF i >= Len(data)
    THEN [self |-> self, ret |-> ParsedMessage(FALSE, Some(0)), consumed |-> i]
    ELSE LET r == feed_byte(self, data[i + 1])
         IN  IF r.ret.valid
             THEN [self |-> r.self, ret |-> r.ret, consumed |-> i + 1]
             ELSE parse_message_loop(r.self, data, i + 1)

RECURSIVE feed_all(_, _, _)
\* for byte in message_bytes: result = parser.feed_byte(byte) -- the results
\* in call order, after those of out, and the object after the last call.
\* The loop over bytes is the loop over its first half followed by the loop
\* over its second half; the state between the two is a value (the one
\* element of a set), so the evaluation stays shallow.
feed_all(self, bytes, out) ==
    IF bytes = << >> THEN [self |-> self, rets |-> out]
    ELSE IF Len(bytes) = 1
    THEN CHOOSE after \in
             {[self |-> r.self,
               rets |-> Append(out, [ret |-> r.ret, line |-> r.line])] :
                 r \in {feed_byte(self, bytes[1])}} : TRUE
    ELSE CHOOSE after \in
             {feed_all(first.self,
                       SubSeq(bytes, (Len(bytes) \div 2) + 1, Len(bytes)),
                       first.rets) :
                 first \in {feed_all(self, SubSeq(bytes, 1, Len(bytes) \div 2),
                                     out)}} : TRUE

\* parse_message calling reset() once more when data is exhausted
parse_message_tidy(self, data) ==
    LET r == parse_message_loop(reset(self), data, 0)
    IN  IF r.ret.valid THEN r ELSE [r EXCEPT !.self = reset(r.self)]

\* parse_message without the reset() it starts with
parse_message_noreset(self, data) == parse_message_loop(self, data, 0)

\* parse_message: the object after the call, the value returned and the
\* number of bytes of data the loop took
parse_message(self, data) == parse_message_loop(reset(self), data, 0)

----------------------------------------------------------------------------
(* Message generators.  A str is the sequence of its code points; a        *)
(* generator yields its frame, or the exception the first failing          *)
(* conversion raises.                                                      *)

\* s.ljust(w)
ljust(s, w) ==
    IF Len(s) >= w THEN s ELSE s \o [i \in 1 .. (w - Len(s)) |-> ord_space]

\* s.encode('ascii', errors='replace'): '?' for what ASCII does not have
encode_ascii_replace(s) ==
    [raised |-> "", bytes |-> [i \in 1 .. Len(s) |-> IF s[i] > 127 THEN 63 ELSE s[i]]]

\* s.encode('ascii')
encode_ascii(s) ==
    IF \E i \in 1 .. Len(s) : s[i] > 127
    THEN [raised |-> "UnicodeEncodeError", bytes |-> << >>]
    ELSE [raised |-> "", bytes |-> s]

\* bytes([b])
bytes1(b) == [raised |-> "", bytes |-> <<b>>]

\* padding of n spaces instead of n zero bytes
zeros_spaces(n) == [raised |-> "", bytes |-> [i \in 1 .. n |-> ord_space]]

\* bytes(n)
zeros(n) == [raised |-> "", bytes |-> [i \in 1 .. n |-> 0]]

RECURSIVE concat(_)
\* p1 + p2 + ...: operands are evaluated left to right, the first exception wins
concat(parts) ==
    IF parts = << >> THEN [raised |-> "", bytes |-> << >>]
    ELSE IF Head(parts).raised # "" THEN Head(parts)
    ELSE LET r == concat(Tail(parts))
         IN  IF r.raised # "" THEN r
             ELSE [raised |-> "", bytes |-> Head(parts).bytes \o r.bytes]

\* ord('S') if side == 'S' else ord('B')
side_byte(side) == IF side = <<ord_S>> THEN ord_S ELSE ord_B

\* the text field without the [:w] cut
text_field_uncut(s, w) == encode_ascii(ljust(s, w))

\* s.ljust(w)[:w].encode('ascii')
text_field(s, w) == encode_ascii(Slice(ljust(s, w), 0, w))

gen_delete_order(order_ref) ==
    concat(<<bytes1(ord_D), to_bytes(order_ref, 8)>>)

gen_add_order(timestamp, order_ref, side, shares, stock, price) ==
    LET stock_bytes == text_field(stock, 8)
    IN  IF stock_bytes.raised # "" THEN stock_bytes
        ELSE concat(<<bytes1(ord_A), to_bytes(timestamp, 6),
                      to_bytes(order_ref, 8), bytes1(side_byte(side)),
                      to_bytes(shares, 4), stock_bytes,
                      to_bytes(price, 4), zeros(4)>>)

gen_cancel_order(timestamp, order_ref, canceled_shares) ==
    concat(<<bytes1(ord_X), to_bytes(timestamp, 6), to_bytes(order_ref, 8),
             to_bytes(canceled_shares, 4), zeros(4)>>)

gen_executed_order(timestamp, order_ref, executed_shares, match_id) ==
    concat(<<bytes1(ord_E), to_bytes(timestamp, 6), to_bytes(order_ref, 8),
             to_bytes(executed_shares, 4), to_bytes(match_id, 8), zeros(3)>>)

gen_replace_order(timestamp, old_order_ref, new_order_ref, shares) ==
    concat(<<bytes1(ord_U), to_bytes(timestamp, 6),
             to_bytes(old_order_ref, 8), to_bytes(new_order_ref, 8),
             to_bytes(shares, 4)>>)

gen_trade(timestamp, order_ref, side, shares, stock, price, match_id) ==
    LET stock_bytes == text_field(stock, 8)
    IN  IF stock_bytes.raised # "" THEN stock_bytes
        ELSE concat(<<bytes1(ord_P), to_bytes(timestamp, 6),
                      to_bytes(order_ref, 8), bytes1(side_byte(side)),
                      to_bytes(shares, 4), stock_bytes,
                      to_bytes(price, 4), to_bytes(match_id, 8)>>)

gen_add_order_mpid(timestamp, order_ref, side, shares, stock, price, mpid) ==
    LET stock_bytes == text_field(stock, 8)
        mpid_bytes  == text_field(mpid, 4)
    IN  IF stock_bytes.raised # "" THEN stock_bytes
        ELSE IF mpid_bytes.raised # "" THEN mpid_bytes
        ELSE concat(<<bytes1(ord_F), to_bytes(timestamp, 6),
                      to_bytes(order_ref, 8), bytes1(side_byte(side)),
                      to_bytes(shares, 4), stock_bytes,
                      to_bytes(price, 4), mpid_bytes, zeros(4)>>)

\* gen_executed_price without the printable byte, padded to the length
gen_executed_price_noflag(timestamp, order_ref, executed_shares, match_id, printable, exec_price) ==
    concat(<<bytes1(ord_C), to_bytes(timestamp, 6), to_bytes(order_ref, 8),
             to_bytes(executed_shares, 4), to_bytes(match_id, 8),
             to_bytes(exec_price, 4), zeros(5)>>)

gen_executed_price(timestamp, order_ref, executed_shares, match_id, printable, exec_price) ==
    concat(<<bytes1(ord_C), to_bytes(timestamp, 6), to_bytes(order_ref, 8),
             to_bytes(executed_shares, 4), to_bytes(match_id, 8),
             bytes1(IF printable THEN ord_Y ELSE ord_N),
             to_bytes(exec_price, 4), zeros(4)>>)

gen_broken_trade(timestamp, match_id) ==
    concat(<<bytes1(ord_B), to_bytes(timestamp, 6), to_bytes(match_id, 8),
             zeros(4)>>)

----------------------------------------------------------------------------
(* The harness: it builds one message at a time with a generator (as       *)
(* run_tests does) or from raw bytes, and either feeds it byte by byte     *)
(* (the loop of the class docstring) or hands it to parse_message.         *)

\* the parser object, read from and written to the variables
Self ==
    [byte_index |-> byte_index, msg_type |-> msg_type,
     msg_length |-> msg_length, buffer |-> buffer, _result |-> _result]

SetSelf(s) ==
    /\ byte_index' = s.byte_index
    /\ msg_type' = s.msg_type
    /\ msg_length' = s.msg_length
    /\ buffer' = s.buffer
    /\ _result' = s._result

\* ITCHParser(): __init__ calls reset()
Constructed == reset(<< >>)

\* argument values of the generators: the values of run_tests, the largest
\* value of each field width, and small ones
TimestampVals == <<Nat_(<<772, 258>>), Nat_(<<65535, 65535, 65535>>), Zero>>

OrderRefVals ==
    <<Nat_(<<1800, 1286, 772, 258>>), Nat_(<<65535, 65535, 65535, 65535>>),
      Nat_(<<1>>)>>

NewOrderRefVals ==
    <<Nat_(<<2>>), Nat_(<<30600, 21862, 13124, 4386>>),
      Nat_(<<65535, 65535, 65535, 65535>>)>>

SharesVals == <<Nat_(<<1000>>), Nat_(<<65535, 65535>>), Zero>>

PriceVals == <<Nat_(<<34464, 1>>), Nat_(<<65535, 65535>>), Nat_(<<256>>)>>

MatchIdVals ==
    <<Nat_(<<52719, 35243, 17767, 291>>), Zero,
      Nat_(<<65535, 65535, 65535, 65535>>)>>

\* 'S', 'B', 's'
SideVals == << <<83>>, <<66>>, <<115>> >>

\* "APPL", "ABCDEFGHIJ", ""
StockVals ==
    << <<65, 80, 80, 76>>, <<65, 66, 67, 68, 69, 70, 71, 72, 73, 74>>, << >> >>

\* "NSDQ", "", "MPIDXY"
MpidVals == << <<78, 83, 68, 81>>, << >>, <<77, 80, 73, 68, 88, 89>> >>

Idx == DOMAIN TimestampVals

NoArgs ==
    [how |-> "none", kind |-> None, raised |-> "",
     timestamp |-> Zero, order_ref |-> Zero, new_order_ref |-> Zero,
     side |-> << >>, shares |-> Zero, stock |-> << >>, price |-> Zero,
     match_id |-> Zero, mpid |-> << >>, printable |-> FALSE]

NoCall ==
    [called |-> FALSE, data |-> << >>, plen |-> 0, index |-> 0,
     ret |-> ParsedMessage(FALSE, Some(0)), consumed |-> 0]

\* payload byte at offset i of the raw pattern p = <<first, step>>
PatternByte(p, i) == (p[1] + p[2] * i) % 256

\* raw payloads: counting up, counting down, all 'S', all 'D' (a tag),
\* all 'Z' (no tag)
RawPatterns == {<<0, 1>>, <<255, 255>>, <<83, 0>>, <<68, 0>>, <<90, 0>>}

\* a frame of kind k with the payload of pattern p, cut to its first n bytes
RawFrame(tag, p, n) ==
    [i \in 1 .. n |-> IF i = 1 THEN tag ELSE PatternByte(p, i - 1)]

Tags == DOMAIN MSG_CHAR_TO_TYPE

LengthOf(tag) == MSG_LENGTHS[MSG_CHAR_TO_TYPE[tag]]

\* the TEST 1 frame, 44 01 02 03 04 05 06 07 08
DeleteFrame == gen_delete_order(OrderRefVals[1]).bytes

\* what parse_message is called with: the message with bytes in front of
\* it and bytes after it
Around == { << << >>, << >> >>, << << >>, DeleteFrame >>,
            << <<90>>, << >> >>, << <<0, 255>>, <<90, 68>> >> }

\* two constructed parsers and no calls
NoStreams ==
    [objs |-> <<Constructed, Constructed>>, scripts |-> << << >>, << >> >>,
     done |-> <<0, 0>>, rets |-> << << >>, << >> >>]

Init ==
    /\ byte_index = Constructed.byte_index
    /\ msg_type = Constructed.msg_type
    /\ msg_length = Constructed.msg_length
    /\ buffer = Constructed.buffer
    /\ _result = Constructed._result
    /\ msg = << >>
    /\ args = NoArgs
    /\ pos = 0
    /\ junk = 0
    /\ rets = << >>
    /\ nmsgs = 0
    /\ pm = NoCall
    /\ two = NoStreams

\* the harness builds a message when it holds none and the parser is at a
\* frame boundary
CanBuild ==
    /\ args.how = "none"
    /\ ~pm.called
    /\ byte_index = 0
    /\ nmsgs < MaxMsgs

\* msg = gen_*(...): the frame, or no message when the generator raised
Built(a, r) ==
    /\ CanBuild
    /\ msg' = r.bytes
    /\ args' = [a EXCEPT !.raised = r.raised]
    /\ pos' = 0
    /\ junk' = 0
    /\ rets' = << >>
    /\ nmsgs' = nmsgs + 1
    /\ pm' = NoCall
    /\ UNCHANGED <<parserVars, two>>

GenArgs(k, i, j) ==
    [NoArgs EXCEPT !.how = "gen", !.kind = Some(k),
                   !.timestamp = TimestampVals[i], !.order_ref = OrderRefVals[j],
                   !.new_order_ref = NewOrderRefVals[i], !.side = SideVals[i],
                   !.shares = SharesVals[j], !.stock = StockVals[i],
                   !.price = PriceVals[i], !.match_id = MatchIdVals[j],
                   !.mpid = MpidVals[j], !.printable = (j = 1)]

\* the generator of kind a.kind applied to the arguments a
Generate(a) ==
    CASE a.kind = Some(DELETE_ORDER) -> gen_delete_order(a.order_ref)
      [] a.kind = Some(ADD_ORDER) ->
            gen_add_order(a.timestamp, a.order_ref, a.side, a.shares, a.stock,
                          a.price)
      [] a.kind = Some(CANCEL_ORDER) ->
            gen_cancel_order(a.timestamp, a.order_ref, a.shares)
      [] a.kind = Some(EXECUTED_ORDER) ->
            gen_executed_order(a.timestamp, a.order_ref, a.shares, a.match_id)
      [] a.kind = Some(REPLACE_ORDER) ->
            gen_replace_order(a.timestamp, a.order_ref, a.new_order_ref,
                              a.shares)
      [] a.kind = Some(TRADE) ->
            gen_trade(a.timestamp, a.order_ref, a.side, a.shares, a.stock,
                      a.price, a.match_id)
      [] a.kind = Some(ADD_ORDER_MPID) ->
            gen_add_order_mpid(a.timestamp, a.order_ref, a.side, a.shares,
                               a.stock, a.price, a.mpid)
      [] a.kind = Some(EXECUTED_PRICE) ->
            gen_executed_price(a.timestamp, a.order_ref, a.shares, a.match_id,
                               a.printable, a.price)
      [] a.kind = Some(BROKEN_TRADE) ->
            gen_broken_trade(a.timestamp, a.match_id)

BuildGen ==
    \E k \in MessageType, i \in Idx, j \in Idx :
        Built(GenArgs(k, i, j), Generate(GenArgs(k, i, j)))

\* text arguments with a character outside ASCII (U+00E9): "\u00e9",
\* "ABCD\u00e9", "ABCDEFGH\u00e9"
TextVals ==
    { <<233>>, <<65, 66, 67, 68, 233>>,
      <<65, 66, 67, 68, 69, 70, 71, 72, 233>> }

\* the generators with a text argument, called with the texts of TextVals
BuildText ==
    \E k \in {ADD_ORDER, TRADE, ADD_ORDER_MPID}, st \in TextVals, mp \in TextVals :
        LET a == [GenArgs(k, 1, 1) EXCEPT !.stock = st, !.mpid = mp]
        IN  Built(a, Generate(a))

\* the integer arguments of each generator with the n of their
\* to_bytes(n, 'big')
IntFields ==
    LET ts == <<"timestamp", 6>>
        rf == <<"order_ref", 8>>
        sh == <<"shares", 4>>
        pr == <<"price", 4>>
        mi == <<"match_id", 8>>
    IN  (ADD_ORDER :> {ts, rf, sh, pr}) @@ (CANCEL_ORDER :> {ts, rf, sh})
        @@ (DELETE_ORDER :> {rf}) @@ (EXECUTED_ORDER :> {ts, rf, sh, mi})
        @@ (REPLACE_ORDER :> {ts, rf, <<"new_order_ref", 8>>, sh})
        @@ (TRADE :> {ts, rf, sh, pr, mi}) @@ (ADD_ORDER_MPID :> {ts, rf, sh, pr})
        @@ (EXECUTED_PRICE :> {ts, rf, sh, mi, pr})
        @@ (BROKEN_TRADE :> {ts, mi})

\* integers that n bytes cannot hold: -1, -65536, 2^(8n) and
\* 2^(8n) + 1000 (n is even)
WideVals(n) ==
    { Neg_(<<1>>), Neg_(<<0, 1>>),
      Nat_([i \in 1 .. (n \div 2) |-> 0] \o <<1>>),
      Nat_(<<1000>> \o [i \in 1 .. ((n \div 2) - 1) |-> 0] \o <<1>>) }

\* a generator called with one integer argument that is negative or too
\* wide for its field, the other arguments those of run_tests
BuildWide ==
    \E k \in MessageType :
        \E f \in IntFields[k] :
            \E v \in WideVals(f[2]) :
                LET a == [[GenArgs(k, 1, 1) EXCEPT ![f[1]] = v]
                             EXCEPT !.how = "wide"]
                IN  Built(a, Generate(a))

\* a frame with arbitrary payload bytes, whole or cut short
BuildRaw ==
    \E tag \in Tags, p \in RawPatterns :
        \E n \in {1, LengthOf(tag) - 1, LengthOf(tag)} :
            Built([NoArgs EXCEPT !.how = "raw",
                                 !.kind = Some(MSG_CHAR_TO_TYPE[tag])],
                  [raised |-> "", bytes |-> RawFrame(tag, p, n)])

\* a whole frame of a kind with a side byte: the payload counts up, the
\* side byte at offset 15 is v
SideFrame(tag, v) ==
    [RawFrame(tag, <<0, 1>>, LengthOf(tag)) EXCEPT ![16] = v]

\* frames of the three kinds with a side, one for every value of the side
\* byte
BuildSide ==
    \E tag \in {ord_A, ord_P, ord_F}, v \in Byte :
        Built([NoArgs EXCEPT !.how = "side",
                             !.kind = Some(MSG_CHAR_TO_TYPE[tag])],
              [raised |-> "", bytes |-> SideFrame(tag, v)])

\* result = parser.feed_byte(byte), recorded with the return statement taken
Fed(byte) ==
    LET r == feed_byte(Self, byte)
    IN  /\ SetSelf(r.self)
        /\ rets' = Append(rets, [ret |-> r.ret, line |-> r.line])

\* for byte in message_bytes: result = parser.feed_byte(byte) -- the whole
\* message in one loop
FeedMessage ==
    /\ ~pm.called
    /\ msg # << >>
    /\ pos = 0
    /\ \E r \in {feed_all(Self, msg, rets)} :
          /\ SetSelf(r.self)
          /\ rets' = r.rets
    /\ pos' = Len(msg)
    /\ UNCHANGED <<msg, args, junk, nmsgs, pm, two>>

\* the next byte of the message goes to feed_byte; the frames of BuildSide
\* are fed and parsed whole only
FeedNext ==
    /\ ~pm.called
    /\ args.how # "side"
    /\ pos < Len(msg)
    /\ Fed(msg[pos + 1])
    /\ pos' = pos + 1
    /\ UNCHANGED <<msg, args, junk, nmsgs, pm, two>>

\* a byte that is no tag goes to feed_byte in front of the message
FeedJunk ==
    /\ ~pm.called
    /\ args.how # "side"
    /\ msg # << >>
    /\ pos = 0
    /\ junk < MaxJunk
    /\ \E b \in Byte \ Tags : Fed(b)
    /\ junk' = junk + 1
    /\ UNCHANGED <<msg, args, pos, nmsgs, pm, two>>

\* parser.feed_byte(ord('D')) while the harness holds no message and the
\* parser holds the start of a frame that earlier calls left: the byte is
\* one more payload byte of that frame; the result is not kept
FeedStray ==
    /\ args.how = "none"
    /\ ~pm.called
    /\ byte_index > 0
    /\ SetSelf(feed_byte(Self, ord_D).self)
    /\ UNCHANGED <<msg, args, pos, junk, rets, nmsgs, pm, two>>

\* result = parser.parse_message(data), called before the message is fed,
\* after its first byte, before its last one or after its last one; the
\* harness records the byte counter the call found and feeds nothing more
\* of msg; a frame of BuildSide is parsed as TEST 6 parses its frame, alone
\* and unfed
ParseMessage ==
    /\ ~pm.called
    /\ junk = 0
    /\ pos \in {0, 1, Len(msg) - 1, Len(msg)}
    /\ \E ar \in Around :
        LET data == ar[1] \o msg \o ar[2]
            r    == parse_message(Self, data)
        IN  /\ args.how = "side" => (pos = 0 /\ ar = << << >>, << >> >>)
            /\ SetSelf(r.self)
            /\ pm' = [called |-> TRUE, data |-> data,
                      plen |-> Len(ar[1]) + Len(msg),
                      index |-> byte_index, ret |-> r.ret,
                      consumed |-> r.consumed]
    /\ pos' = Len(msg)
    /\ rets' = << >>
    /\ UNCHANGED <<msg, args, junk, nmsgs, two>>

\* the harness is done with the message and its results; the parser is
\* not touched
Forget ==
    /\ args.how # "none" \/ pm.called
    /\ pos = Len(msg)
    /\ msg' = << >>
    /\ args' = NoArgs
    /\ pos' = 0
    /\ junk' = 0
    /\ rets' = << >>
    /\ pm' = NoCall
    /\ UNCHANGED <<parserVars, nmsgs, two>>

\* parser.reset(); the harness drops the message
Reset ==
    /\ SetSelf(reset(Self))
    /\ msg' = << >>
    /\ args' = NoArgs
    /\ pos' = 0
    /\ junk' = 0
    /\ rets' = << >>
    /\ pm' = NoCall
    /\ UNCHANGED <<nmsgs, two>>

Next ==
    \/ BuildGen
    \/ BuildText
    \/ BuildRaw
    \/ BuildSide
    \/ BuildWide
    \/ FeedMessage
    \/ FeedNext
    \/ FeedJunk
    \/ FeedStray
    \/ ParseMessage
    \/ Forget
    \/ Reset

Spec == Init /\ [][Next]_vars

----------------------------------------------------------------------------
(* Two parsers, p1 = ITCHParser() and p2 = ITCHParser(), each with its own *)
(* sequence of feed_byte and parse_message calls; the calls of the two     *)
(* sequences interleave in any order.                                      *)

\* all attributes kept in one place for every instance (class attributes)
self_attrs_class(objs, i) == objs[1]

\* the attributes a method reads through self: those of the instance
\* itself, all of them assigned on self by reset(); the class body has none
self_attrs(objs, i) == objs[i]

\* parser.feed_byte(b) for each byte of bytes
FeedCalls(bytes) == [i \in 1 .. Len(bytes) |-> [op |-> "feed", arg |-> <<bytes[i]>>]]

\* parser.parse_message(data)
ParseCall(data) == [op |-> "parse", arg |-> data]

CancelFrame ==
    gen_cancel_order(TimestampVals[1], OrderRefVals[1], SharesVals[1]).bytes

BrokenFrame == gen_broken_trade(TimestampVals[1], MatchIdVals[1]).bytes

AddFrame ==
    gen_add_order(TimestampVals[1], OrderRefVals[1], SideVals[1], SharesVals[1],
                  StockVals[1], PriceVals[1]).bytes

\* the call sequences: a frame fed byte by byte; a rejected byte, the
\* start of a frame, a parse_message call and another frame; a
\* parse_message call that leaves a frame one byte short, the byte that
\* completes it and another frame
Scripts ==
    { FeedCalls(DeleteFrame),
      FeedCalls(<<90>> \o SubSeq(CancelFrame, 1, 5))
          \o <<ParseCall(DeleteFrame)>> \o FeedCalls(BrokenFrame),
      <<ParseCall(SubSeq(AddFrame, 1, 35))>> \o FeedCalls(<<68>> \o DeleteFrame) }

InitTwo ==
    /\ byte_index = Constructed.byte_index
    /\ msg_type = Constructed.msg_type
    /\ msg_length = Constructed.msg_length
    /\ buffer = Constructed.buffer
    /\ _result = Constructed._result
    /\ msg = << >>
    /\ args = NoArgs
    /\ pos = 0
    /\ junk = 0
    /\ rets = << >>
    /\ nmsgs = 0
    /\ pm = NoCall
    /\ \E s1 \in Scripts, s2 \in Scripts :
          two = [NoStreams EXCEPT !.scripts = <<s1, s2>>]

\* the next call of instance i's sequence
CallOn(i) ==
    /\ two.done[i] < Len(two.scripts[i])
    /\ LET c    == two.scripts[i][two.done[i] + 1]
           self == self_attrs(two.objs, i)
           r    == IF c.op = "feed" THEN feed_byte(self, c.arg[1])
                   ELSE parse_message(self, c.arg)
       IN  two' = [two EXCEPT !.objs[i] = r.self,
                              !.done[i] = @ + 1,
                              !.rets[i] = Append(@, r.ret)]
    /\ UNCHANGED oneVars

Call1 == CallOn(1)

Call2 == CallOn(2)

NextTwo ==
    \/ Call1
    \/ Call2

SpecTwo == InitTwo /\ [][NextTwo]_vars

----------------------------------------------------------------------------
(* A continuous stream: up to MaxMsgs whole frames, of any kinds, with     *)
(* bytes that are no tag in front of them, fed to one parser by the loop   *)
(* of the class docstring.                                                 *)

\* payloads of the frames of a stream: counting up, all 'D' (a tag)
StreamPatterns == {<<0, 1>>, <<68, 0>>}

\* the i-th byte of a gap: 'Z', 0x00, 'Z', ...
GapByte(i) == IF i % 2 = 1 THEN 90 ELSE 0

\* the number of bytes in front of the i-th frame of a stream with gaps g:
\* none anywhere for g = 0, and from none to MaxJunk otherwise
GapLen(g, i) == IF g = 0 THEN 0 ELSE (g + i) % (MaxJunk + 1)

Gap(g, i) == [j \in 1 .. GapLen(g, i) |-> GapByte(j)]

RECURSIVE Stream(_, _, _)
\* the first n frames, each after its gap, as one byte sequence
Stream(frames, g, n) ==
    IF n = 0 THEN << >>
    ELSE Stream(frames, g, n - 1) \o Gap(g, n) \o frames[n]

InitStream ==
    /\ byte_index = Constructed.byte_index
    /\ msg_type = Constructed.msg_type
    /\ msg_length = Constructed.msg_length
    /\ buffer = Constructed.buffer
    /\ _result = Constructed._result
    /\ \E n \in 1 .. MaxMsgs :
          \E tags \in [1 .. n -> Tags], p \in StreamPatterns, g \in 0 .. MaxJunk :
              LET frames == [i \in 1 .. n |->
                                RawFrame(tags[i], p, LengthOf(tags[i]))]
              IN  /\ msg = Stream(frames, g, n)
                  /\ args = [how |-> "stream", frames |-> frames, gap |-> g]
                  /\ nmsgs = n
    /\ pos = 0
    /\ junk = 0
    /\ rets = << >>
    /\ pm = NoCall
    /\ two = NoStreams

NextStream ==
    \/ FeedNext
    \/ FeedMessage

SpecStream == InitStream /\ [][NextStream]_vars

----------------------------------------------------------------------------
(* Properties.                                                             *)

\* m is a whole frame: a defined tag followed by the payload of its length
WellFormed(m) == m # << >> /\ m[1] \in Tags /\ Len(m) = LengthOf(m[1])

\* the harness has fed all of msg byte by byte and rets holds the results
FedAll == ~pm.called /\ args.how # "none" /\ pos = Len(msg)

\* the results of the feed_byte calls for the bytes of msg
MsgRets == SubSeq(rets, junk + 1, junk + pos)

\* C1: for each of the 9 kinds and each well-formed frame, feeding the
\* frame byte by byte to a parser in its initial state returns on the last
\* byte the ParsedMessage that parse_message returns for the same bytes,
\* and every earlier feed_byte call returns valid=False.
C1_FeedEqualsParseMessage ==
    /\ (~pm.called /\ msg # << >> /\ pos = 0 /\ junk = 0) => Self = Constructed
    /\ (FedAll /\ junk = 0 /\ WellFormed(msg)) =>
          /\ Len(rets) = Len(msg)
          /\ rets[Len(rets)].ret = parse_message(Constructed, msg).ret
          /\ \A i \in 1 .. (Len(rets) - 1) : ~rets[i].ret.valid

C1_Witness ==
    /\ FedAll /\ junk = 0 /\ WellFormed(msg)
    /\ args.how = "gen" /\ args.kind = Some(TRADE)
    /\ rets[Len(rets)].ret.valid
    /\ rets[Len(rets)].ret.msg_type = Some(TRADE)

\* C2: every byte that is none of the 9 tags, fed at a frame boundary, is
\* rejected (valid=False) and leaves the parser such that the next valid
\* frame, of any kind, is decoded exactly as if the rejected bytes had never
\* been fed; this holds after any number of consecutive rejected bytes.
C2_RejectionLeavesNextFrameIntact ==
    /\ ~pm.called =>
          \A i \in 1 .. junk : ~rets[i].ret.valid /\ rets[i].line = 144
    /\ (~pm.called /\ msg # << >> /\ pos = 0) => Self = Constructed
    /\ (FedAll /\ junk > 0 /\ WellFormed(msg)) =>
          /\ MsgRets = feed_all(Constructed, msg, << >>).rets
          /\ Self = feed_all(Constructed, msg, << >>).self

C2_Witness ==
    /\ FedAll /\ junk = MaxJunk /\ WellFormed(msg)
    /\ rets[Len(rets)].ret.valid
    /\ rets[Len(rets)].ret.order_ref # Zero

\* the unsigned integer that the bytes bs spell most significant byte first
BigEndian(bs) ==
    LET n == Len(bs)
        lo(i) == bs[n - 2 * (i - 1)]
        hi(i) == IF n - 2 * (i - 1) - 1 >= 1 THEN bs[n - 2 * (i - 1) - 1] ELSE 0
    IN  Nat_(Strip([i \in 1 .. ((n + 1) \div 2) |-> lo(i) + 256 * hi(i)]))

\* a text argument as its fixed-width field: cut to w, filled with spaces
TextField(s, w) == [i \in 1 .. w |-> IF i <= Len(s) THEN s[i] ELSE 32]

\* what decoding the frame of the generator arguments a has to give
Encoded(a) ==
    LET k == a.kind[1]
    IN  [valid |-> TRUE, msg_type |-> a.kind,
         timestamp |-> IF k = DELETE_ORDER THEN Zero ELSE a.timestamp,
         order_ref |-> IF k = BROKEN_TRADE THEN Zero ELSE a.order_ref,
         new_order_ref |-> IF k = REPLACE_ORDER THEN a.new_order_ref ELSE Zero,
         side |-> IF k \in {ADD_ORDER, TRADE, ADD_ORDER_MPID} /\ a.side = <<83>>
                  THEN 1 ELSE 0,
         shares |-> IF k \in {DELETE_ORDER, BROKEN_TRADE} THEN Zero ELSE a.shares,
         price |-> IF k \in {ADD_ORDER, TRADE, ADD_ORDER_MPID, EXECUTED_PRICE}
                   THEN a.price ELSE Zero,
         misc_data |->
             IF k \in {EXECUTED_ORDER, TRADE, EXECUTED_PRICE, BROKEN_TRADE}
             THEN a.match_id
             ELSE IF k \in {ADD_ORDER, ADD_ORDER_MPID}
             THEN BigEndian(TextField(a.stock, 8))
             ELSE Zero]

\* C3: for every kind and in-range field values, decoding the frame of the
\* kind's generator gives valid=True, the kind, exactly the encoded
\* timestamp, order_ref, new_order_ref, side, shares, price and misc_data,
\* and 0 in every field the kind does not define.
C3_DecodeOfEncode ==
    /\ (FedAll /\ args.how = "gen" /\ args.raised = "") =>
          /\ Len(rets) > 0
          /\ rets[Len(rets)].ret = Encoded(args)
    /\ (pm.called /\ args.how = "gen" /\ args.raised = "") =>
          pm.ret = Encoded(args)

C3_Witness ==
    /\ FedAll /\ args.how = "gen" /\ args.kind = Some(EXECUTED_PRICE)
    /\ rets[Len(rets)].ret.valid
    /\ rets[Len(rets)].ret.price = PriceVals[1]
    /\ rets[Len(rets)].ret.misc_data = MatchIdVals[1]

\* the byte ranges of the fields, kind by kind: <<a, b>> is [a:b) counted
\* from the tag at offset 0, <<a>> is the byte at offset a, << >> is no range
OffsetTable ==
    LET row(ts, ref, nref, sd, sh, misc, pr) ==
            [timestamp |-> ts, order_ref |-> ref, new_order_ref |-> nref,
             side |-> sd, shares |-> sh, misc_data |-> misc, price |-> pr]
    IN  (ADD_ORDER :> row(<<1, 7>>, <<7, 15>>, << >>, <<15>>, <<16, 20>>,
                          <<20, 28>>, <<28, 32>>))
        @@ (CANCEL_ORDER :> row(<<1, 7>>, <<7, 15>>, << >>, << >>, <<15, 19>>,
                                << >>, << >>))
        @@ (DELETE_ORDER :> row(<< >>, <<1, 9>>, << >>, << >>, << >>, << >>,
                                << >>))
        @@ (EXECUTED_ORDER :> row(<<1, 7>>, <<7, 15>>, << >>, << >>, <<15, 19>>,
                                  <<19, 27>>, << >>))
        @@ (REPLACE_ORDER :> row(<<1, 7>>, <<7, 15>>, <<15, 23>>, << >>,
                                 <<23, 27>>, << >>, << >>))
        @@ (TRADE :> row(<<1, 7>>, <<7, 15>>, << >>, <<15>>, <<16, 20>>,
                         <<32, 40>>, <<28, 32>>))
        @@ (ADD_ORDER_MPID :> row(<<1, 7>>, <<7, 15>>, << >>, <<15>>, <<16, 20>>,
                                  <<20, 28>>, <<28, 32>>))
        @@ (EXECUTED_PRICE :> row(<<1, 7>>, <<7, 15>>, << >>, << >>, <<15, 19>>,
                                  <<19, 27>>, <<28, 32>>))
        @@ (BROKEN_TRADE :> row(<<1, 7>>, << >>, << >>, << >>, << >>, <<7, 15>>,
                                << >>))

\* the record the offset table gives for the whole frame fr
TableDecode(fr) ==
    LET row == OffsetTable[MSG_CHAR_TO_TYPE[fr[1]]]
        int(rg) == IF rg = << >> THEN Zero
                   ELSE BigEndian(SubSeq(fr, rg[1] + 1, rg[2]))
    IN  [valid |-> TRUE, msg_type |-> Some(MSG_CHAR_TO_TYPE[fr[1]]),
         timestamp |-> int(row.timestamp), order_ref |-> int(row.order_ref),
         new_order_ref |-> int(row.new_order_ref),
         side |-> IF row.side # << >> /\ fr[row.side[1] + 1] = 83 THEN 1 ELSE 0,
         shares |-> int(row.shares), price |-> int(row.price),
         misc_data |-> int(row.misc_data)]

\* C4: for every kind and every completed frame, whatever its payload
\* bytes, each decoded field is the big-endian unsigned integer of exactly
\* the byte range the offset table gives for the kind, and every field
\* without a range is 0.
C4_FieldsAtTableOffsets ==
    (FedAll /\ WellFormed(msg)) =>
        /\ Len(rets) > 0
        /\ rets[Len(rets)].ret = TableDecode(msg)

C4_Witness ==
    /\ FedAll /\ WellFormed(msg) /\ args.how = "raw"
    /\ args.kind = Some(CANCEL_ORDER)
    /\ msg[16] # msg[20]
    /\ rets[Len(rets)].ret.shares = BigEndian(SubSeq(msg, 16, 19))

\* the frame lengths the kinds are registered with, by tag
RegisteredLength ==
    (65 :> 36) @@ (88 :> 23) @@ (68 :> 9) @@ (69 :> 30) @@ (85 :> 27)
    @@ (80 :> 40) @@ (70 :> 40) @@ (67 :> 36) @@ (66 :> 19)

\* C5: for every kind and every accepted input, text arguments of any
\* length included, the frame of the kind's generator has the length
\* registered for the kind in MSG_LENGTHS and starts with the kind's tag.
C5_GeneratedLength ==
    (args.how = "gen" /\ args.raised = "") =>
        /\ msg # << >>
        /\ msg[1] \in DOMAIN MSG_CHAR_TO_TYPE
        /\ MSG_CHAR_TO_TYPE[msg[1]] = args.kind[1]
        /\ Len(msg) = MSG_LENGTHS[args.kind[1]]
        /\ Len(msg) = RegisteredLength[msg[1]]

C5_Witness ==
    /\ args.how = "gen" /\ args.raised = ""
    /\ args.kind = Some(ADD_ORDER_MPID)
    /\ Len(args.stock) > 8
    /\ Len(args.mpid) > 4
    /\ Len(msg) = 40

\* this step is one feed_byte call (the only steps that add a result)
FeedStep == Len(rets') = Len(rets) + 1

\* C6: once feed_byte has taken a tag, the kind and the target length stay
\* as they are for every later feed_byte call until the frame completes,
\* whatever the payload bytes are: a payload byte never starts a new frame,
\* never causes a rejection and never changes the length, so exactly
\* length(tag) bytes are consumed per frame.
C6_KindAndLengthFixed ==
    [][(FeedStep /\ byte_index > 0) =>
          /\ msg_length = LengthOf(buffer[1])
          /\ msg_type = Some(MSG_CHAR_TO_TYPE[buffer[1]])
          /\ rets'[Len(rets')].line # 144
          /\ (byte_index + 1 < msg_length) =>
                /\ rets'[Len(rets')].line = 156
                /\ msg_type' = msg_type
                /\ msg_length' = msg_length
                /\ byte_index' = byte_index + 1
                /\ SubSeq(buffer', 1, Len(buffer)) = buffer
                /\ Len(buffer') = Len(buffer) + 1
          /\ (byte_index + 1 >= msg_length) =>
                /\ rets'[Len(rets')].line = 154
                /\ byte_index + 1 = msg_length
                /\ rets'[Len(rets')].ret.msg_type = msg_type
      ]_vars

\* a frame of one kind whose payload bytes are all the tag of another kind
\* has been fed to its end, and only its last byte completed a message
C6_Witness ==
    /\ FedAll /\ WellFormed(msg) /\ junk = 0
    /\ msg[1] = 65
    /\ \A i \in 2 .. Len(msg) : msg[i] = 68
    /\ Len(rets) = 36
    /\ rets[36].ret.msg_type = Some(ADD_ORDER)
    /\ \A i \in 1 .. 35 : rets[i].line = 156

\* C7: the parser is in the initial state (byte counter 0, no kind, target
\* length 0, empty buffer) right after construction, right after every
\* feed_byte call that completes a frame and right after every feed_byte
\* call that rejects an unrecognized tag.
C7_InitialStateAfterFrame ==
    LET initial == /\ byte_index = 0
                   /\ msg_type = None
                   /\ msg_length = 0
                   /\ buffer = << >>
    IN  /\ Init => initial
        /\ (~pm.called /\ rets # << >> /\ rets[Len(rets)].line \in {144, 154})
              => initial
        /\ (~pm.called /\ rets # << >> /\ rets[Len(rets)].ret.valid)
              => initial

C7_Witness ==
    /\ ~pm.called /\ junk > 0 /\ pos = Len(msg) /\ WellFormed(msg)
    /\ rets[1].line = 144
    /\ rets[Len(rets)].line = 154
    /\ byte_index = 0

\* 0x5A (or any other byte that is no tag) and then the frame of
\* gen_delete_order went to an idle parser: the first call rejects, the
\* next 8 are incomplete, the last one completes with the frame's order_ref
ZThenDelete ==
    (FedAll /\ junk = 1 /\ args.how = "gen" /\ args.kind = Some(DELETE_ORDER)) =>
        /\ Len(rets) = 10
        /\ rets[1].line = 144
        /\ \A i \in 2 .. 9 : rets[i].line = 156
        /\ \A i \in 1 .. 9 : ~rets[i].ret.valid
        /\ rets[10].line = 154
        /\ rets[10].ret.valid
        /\ rets[10].ret.msg_type = Some(DELETE_ORDER)
        /\ rets[10].ret.order_ref = args.order_ref

\* C8 (as claimed): feed reports three distinguishable outcomes,
\* Incomplete, Complete and Rejected -- calls that leave by different
\* return statements return different values -- and an unrecognized byte
\* followed by a DeleteOrder frame gives one Rejected, then Incomplete
\* events, then one Complete with the frame's order_ref.
C8_ThreeOutcomes ==
    /\ ~pm.called =>
          \A i, j \in 1 .. Len(rets) :
              rets[i].line # rets[j].line => rets[i].ret # rets[j].ret
    /\ ZThenDelete

\* C8 (amended): feed_byte returns one of two distinguishable values: the
\* decoded message with valid=True when a frame completes, and
\* ParsedMessage(valid=False), all fields at their defaults, both for an
\* incomplete frame and for a rejected tag; an unrecognized byte followed
\* by a DeleteOrder frame gives valid=False on the rejected byte and on the
\* first 8 bytes of the frame, then exactly one valid result on the last
\* byte, with the frame's order_ref.
C8_TwoResults ==
    /\ ~pm.called =>
          \A i \in 1 .. Len(rets) :
              IF rets[i].line = 154
              THEN rets[i].ret.valid
              ELSE rets[i].ret = ParsedMessage(FALSE, Some(0))
    /\ ZThenDelete

C8_Witness ==
    /\ FedAll /\ junk = 1 /\ args.how = "gen"
    /\ args.kind = Some(DELETE_ORDER)
    /\ msg = <<68, 1, 2, 3, 4, 5, 6, 7, 8>>
    /\ Len(rets) = 10
    /\ rets[1].ret = rets[2].ret
    /\ rets[10].ret.order_ref = OrderRefVals[1]

\* C9: parse_message returns the result of the first frame that completes
\* in data and looks at no byte after it: for an input whose prefix p holds
\* a completing frame and any bytes x, parse_message(p ++ x) is
\* parse_message(p), and on return the parser is in the initial state with
\* none of x consumed.
C9_ParseStopsAtFirstFrame ==
    (pm.called /\ WellFormed(msg)) =>
        LET p == SubSeq(pm.data, 1, pm.plen)
        IN  /\ pm.ret.valid
            /\ pm.ret = parse_message(Constructed, p).ret
            /\ pm.consumed <= pm.plen
            /\ Self = Constructed

C9_Witness ==
    /\ pm.called /\ WellFormed(msg)
    /\ SubSeq(pm.data, pm.plen + 1, Len(pm.data)) = DeleteFrame
    /\ pm.ret.valid
    /\ pm.ret.msg_type = Some(ADD_ORDER)
    /\ pm.consumed = 36

\* C10: parse_message returns valid=False whenever no frame completes
\* before data is exhausted: for the empty input, for every proper prefix
\* of a frame of any kind and for every input of unrecognized bytes only.
C10_ParseOfNoFrameIsInvalid ==
    (/\ pm.called
     /\ \/ pm.data = << >>
        \/ \A i \in 1 .. Len(pm.data) : pm.data[i] \notin Tags
        \/ pm.data[1] \in Tags /\ Len(pm.data) < LengthOf(pm.data[1]))
    => /\ ~pm.ret.valid
       /\ pm.ret = ParsedMessage(FALSE, Some(0))
       /\ pm.consumed = Len(pm.data)

C10_Witness ==
    /\ pm.called
    /\ Len(pm.data) = 39
    /\ pm.data[1] = 80
    /\ ~pm.ret.valid
    /\ byte_index = 39

\* C11: the result of parse_message(data) depends only on data: whatever
\* feed_byte and parse_message calls came before on the same parser, a
\* partial frame left in the buffer included, the call returns the
\* ParsedMessage that a freshly constructed parser returns for data (and
\* takes as many bytes of data).
C11_ParseDependsOnlyOnData ==
    pm.called =>
        LET fresh == parse_message_loop(Constructed, pm.data, 0)
        IN  /\ pm.ret = fresh.ret
            /\ pm.consumed = fresh.consumed

\* parse_message was called on a parser holding all but the last byte of a
\* Trade frame, with the DeleteOrder frame of TEST 1 as data
C11_Witness ==
    /\ pm.called
    /\ pm.index = 39
    /\ pm.data = DeleteFrame
    /\ pm.ret.valid
    /\ pm.ret.msg_type = Some(DELETE_ORDER)
    /\ pm.ret.order_ref = OrderRefVals[1]
    /\ pm.consumed = 9

\* the registry as the data model lists it: tag -> <<kind, frame length>>,
\* with AddOrder = 0, CancelOrder = 1, DeleteOrder = 2, ExecutedOrder = 3,
\* ReplaceOrder = 4, Trade = 5, AddOrderWithMpid = 6, ExecutedWithPrice = 7,
\* BrokenTrade = 8
RegistryTable ==
    (65 :> <<0, 36>>) @@ (88 :> <<1, 23>>) @@ (68 :> <<2, 9>>)
    @@ (69 :> <<3, 30>>) @@ (85 :> <<4, 27>>) @@ (80 :> <<5, 40>>)
    @@ (70 :> <<6, 40>>) @@ (67 :> <<7, 36>>) @@ (66 :> <<8, 19>>)

\* C12: the type registry is total over the 256 byte values: it gives
\* A->(AddOrder,36), X->(CancelOrder,23), D->(DeleteOrder,9),
\* E->(ExecutedOrder,30), U->(ReplaceOrder,27), P->(Trade,40),
\* F->(AddOrderWithMpid,40), C->(ExecutedWithPrice,36), B->(BrokenTrade,19)
\* and nothing for each of the other 247 values, and feed_byte accepts a
\* first byte (starts a frame of that kind and length) if and only if the
\* registry has a kind for it, and rejects it otherwise.
C12_RegistryTotal ==
    /\ \A b \in 0 .. 255 :
          IF b \in DOMAIN RegistryTable
          THEN /\ b \in DOMAIN MSG_CHAR_TO_TYPE
               /\ MSG_CHAR_TO_TYPE[b] = RegistryTable[b][1]
               /\ MSG_CHAR_TO_TYPE[b] \in DOMAIN MSG_LENGTHS
               /\ MSG_LENGTHS[MSG_CHAR_TO_TYPE[b]] = RegistryTable[b][2]
          ELSE b \notin DOMAIN MSG_CHAR_TO_TYPE
    /\ Cardinality((0 .. 255) \ DOMAIN MSG_CHAR_TO_TYPE) = 247
    /\ byte_index = 0 =>
          \A b \in 0 .. 255 :
              LET r == feed_byte(Self, b)
              IN  IF b \in DOMAIN RegistryTable
                  THEN /\ r.line = 156
                       /\ r.self.byte_index = 1
                       /\ r.self.msg_type = Some(RegistryTable[b][1])
                       /\ r.self.msg_length = RegistryTable[b][2]
                       /\ r.self.buffer = <<b>>
                  ELSE /\ r.line = 144
                       /\ ~r.ret.valid
                       /\ r.self.byte_index = 0
                       /\ r.self.msg_type = None
    /\ (~pm.called /\ pos = 1) =>
          /\ \A i \in 1 .. junk : rets[i].line = 144
          /\ rets[junk + 1].line = 156
          /\ msg_type = Some(RegistryTable[msg[1]][1])
          /\ msg_length = RegistryTable[msg[1]][2]

\* a byte without a registry entry was rejected and the tag 'F' after it
\* was accepted as the start of a 40-byte AddOrderWithMpid frame
C12_Witness ==
    /\ ~pm.called /\ junk = 1 /\ pos = 1
    /\ rets[1].line = 144
    /\ rets[2].line = 156
    /\ msg[1] = 70
    /\ msg_type = Some(ADD_ORDER_MPID)
    /\ msg_length = 40
    /\ byte_index = 1

\* no two distinct kinds have the same tag, and every kind has a tag
TagUniquePerKind ==
    /\ \A a, b \in DOMAIN MSG_CHAR_TO_TYPE :
          a # b => MSG_CHAR_TO_TYPE[a] # MSG_CHAR_TO_TYPE[b]
    /\ \A k \in MessageType : \E a \in DOMAIN MSG_CHAR_TO_TYPE :
          MSG_CHAR_TO_TYPE[a] = k

\* the kinds registered with the frame length n
KindsOfLength(n) == {k \in DOMAIN MSG_LENGTHS : MSG_LENGTHS[k] = n}

\* C13 (as claimed): in the type registry both the tag byte and the total
\* frame length are unique per kind: no two distinct kinds share a tag, and
\* no two distinct kinds share a frame length -- so the target length of
\* the frame being assembled is that of one kind only.
C13_TagAndLengthUnique ==
    /\ TagUniquePerKind
    /\ byte_index > 0 => KindsOfLength(msg_length) = {msg_type[1]}

\* C13 (amended): the tag byte is unique per kind and every kind has one
\* fixed frame length, but the length is not unique per kind: AddOrder and
\* ExecutedWithPrice share 36, Trade and AddOrderWithMpid share 40, and no
\* other two kinds share a length; the target length of the frame being
\* assembled is that of its kind and of at most one other kind.
C13_TagUniqueLengthShared ==
    /\ TagUniquePerKind
    /\ DOMAIN MSG_LENGTHS = MessageType
    /\ KindsOfLength(36) = {0, 7}
    /\ KindsOfLength(40) = {5, 6}
    /\ \A k1, k2 \in MessageType :
          (k1 # k2 /\ MSG_LENGTHS[k1] = MSG_LENGTHS[k2]) =>
              {k1, k2} \in {{0, 7}, {5, 6}}
    /\ byte_index > 0 =>
          /\ msg_type[1] \in KindsOfLength(msg_length)
          /\ Cardinality(KindsOfLength(msg_length)) =
                 IF msg_type[1] \in {0, 7, 5, 6} THEN 2 ELSE 1

\* a Trade frame is being assembled and its target length, 40, is also the
\* length of AddOrderWithMpid
C13_Witness ==
    /\ ~pm.called /\ pos = 39 /\ byte_index = 39
    /\ msg_type = Some(TRADE)
    /\ msg_length = 40
    /\ ADD_ORDER_MPID \in KindsOfLength(msg_length)

\* C14: for AddOrder, Trade and AddOrderWithMpid frames and every value of
\* byte[15], the decoded side is Sell (1) if and only if byte[15] is 0x53
\* ('S'); 0x42 ('B') and each of the other 254 values decode to Buy (0),
\* and none of them causes a rejection: the frame completes with
\* valid=True.
C14_SideIsSellIffS ==
    /\ (FedAll /\ WellFormed(msg) /\ msg[1] \in {65, 80, 70}) =>
          /\ Len(rets) = junk + Len(msg)
          /\ \A i \in (junk + 1) .. Len(rets) : rets[i].line # 144
          /\ rets[Len(rets)].ret.valid
          /\ rets[Len(rets)].ret.side \in {0, 1}
          /\ rets[Len(rets)].ret.side = 1 <=> msg[16] = 83
    /\ (pm.called /\ WellFormed(msg) /\ msg[1] \in {65, 80, 70}) =>
          /\ pm.ret.valid
          /\ pm.ret.side \in {0, 1}
          /\ pm.ret.side = 1 <=> msg[16] = 83

\* a Trade frame whose side byte is 's' (0x73) was fed and decoded to Buy
C14_Witness ==
    /\ FedAll /\ args.how = "side" /\ msg[1] = 80
    /\ msg[16] = 115
    /\ Len(rets) = junk + 40
    /\ rets[Len(rets)].ret.valid
    /\ rets[Len(rets)].ret.side = 0

\* the tag of the kind each name of the configuration table stands for:
\* add/A, cancel/X, replace/U, delete/D, executed/E, trade/P, add_mpid/F,
\* broken_trade/B, executed_price/C
TagOfName ==
    ("add" :> 65) @@ ("cancel" :> 88) @@ ("replace" :> 85) @@ ("delete" :> 68)
    @@ ("executed" :> 69) @@ ("trade" :> 80) @@ ("add_mpid" :> 70)
    @@ ("broken_trade" :> 66) @@ ("executed_price" :> 67)

\* C15: the frame-length table is not duplicated with divergent values:
\* ITCH_config.MSG_LENGTHS and itch_parser.MSG_LENGTHS cover the same 9
\* kinds and give the same frame length for each kind -- so the target
\* length of every frame the parser assembles is the length the
\* configuration table gives for the frame's kind.
C15_ConfigLengthsAgree ==
    /\ DOMAIN ITCH_config_MSG_LENGTHS = DOMAIN TagOfName
    /\ {TagOfName[n] : n \in DOMAIN TagOfName} = DOMAIN MSG_CHAR_TO_TYPE
    /\ {MSG_CHAR_TO_TYPE[TagOfName[n]] : n \in DOMAIN TagOfName}
          = DOMAIN MSG_LENGTHS
    /\ Cardinality(DOMAIN ITCH_config_MSG_LENGTHS) = 9
    /\ Cardinality(DOMAIN MSG_LENGTHS) = 9
    /\ \A n \in DOMAIN ITCH_config_MSG_LENGTHS :
          ITCH_config_MSG_LENGTHS[n] = MSG_LENGTHS[MSG_CHAR_TO_TYPE[TagOfName[n]]]
    /\ byte_index > 0 =>
          \A n \in DOMAIN ITCH_config_MSG_LENGTHS :
              TagOfName[n] = buffer[1] => msg_length = ITCH_config_MSG_LENGTHS[n]

\* an ExecutedOrder frame is one byte short of the length both tables give
C15_Witness ==
    /\ ~pm.called /\ byte_index = 29 /\ pos = 29
    /\ buffer[1] = 69
    /\ msg_type = Some(EXECUTED_ORDER)
    /\ msg_length = ITCH_config_MSG_LENGTHS["executed"]
    /\ msg_length = 30

\* the byte ranges no field is assigned to, kind by kind
PaddingTable ==
    (0 :> <<32, 36>>) @@ (1 :> <<19, 23>>) @@ (2 :> << >>) @@ (3 :> <<27, 30>>)
    @@ (4 :> << >>) @@ (5 :> << >>) @@ (6 :> <<36, 40>>) @@ (7 :> <<32, 36>>)
    @@ (8 :> <<15, 19>>)

\* the tag of each kind
TagOfKind ==
    (0 :> 65) @@ (1 :> 88) @@ (2 :> 68) @@ (3 :> 69) @@ (4 :> 85) @@ (5 :> 80)
    @@ (6 :> 70) @@ (7 :> 67) @@ (8 :> 66)

\* the frame fr has the layout of the offset table for the encoder
\* arguments a: the tag, every integer field big-endian in its range, the
\* side byte, the text fields, and zero in the padding range
LaidOut(fr, a) ==
    LET k   == a.kind[1]
        row == OffsetTable[k]
        at(rg) == BigEndian(SubSeq(fr, rg[1] + 1, rg[2]))
        pad == PaddingTable[k]
    IN  /\ Len(fr) = RegisteredLength[TagOfKind[k]]
        /\ fr[1] = TagOfKind[k]
        /\ row.timestamp # << >> => at(row.timestamp) = a.timestamp
        /\ row.order_ref # << >> => at(row.order_ref) = a.order_ref
        /\ row.new_order_ref # << >> => at(row.new_order_ref) = a.new_order_ref
        /\ row.shares # << >> => at(row.shares) = a.shares
        /\ row.price # << >> => at(row.price) = a.price
        /\ k \in {3, 5, 7, 8} => at(row.misc_data) = a.match_id
        /\ k \in {0, 5, 6} =>
              /\ fr[row.side[1] + 1] = (IF a.side = <<83>> THEN 83 ELSE 66)
              /\ SubSeq(fr, 21, 28) = TextField(a.stock, 8)
        /\ k = 6 => SubSeq(fr, 33, 36) = TextField(a.mpid, 4)
        /\ k = 7 => fr[28] = (IF a.printable THEN 89 ELSE 78)
        /\ pad # << >> => \A i \in (pad[1] + 1) .. pad[2] : fr[i] = 0

\* C16: for every kind, the frame of the gen_* encoder has the tag at
\* offset 0, each field written big-endian at exactly the byte range of the
\* offset table for the kind, and every byte not assigned a field (AddOrder
\* [32:36), CancelOrder [19:23), ExecutedOrder [27:30), AddOrderWithMpid
\* [36:40), ExecutedWithPrice [32:36), BrokenTrade [15:19)) equal to zero;
\* gen_delete_order(0x0102030405060708) is 44 01 02 03 04 05 06 07 08.
C16_EncoderLayout ==
    /\ (args.how = "gen" /\ args.raised = "") => LaidOut(msg, args)
    /\ (/\ args.how = "gen"
        /\ args.kind = Some(DELETE_ORDER)
        /\ args.order_ref = Nat_(<<1800, 1286, 772, 258>>))
          => msg = <<68, 1, 2, 3, 4, 5, 6, 7, 8>>

\* the ExecutedOrder frame of match_id 0x0123456789ABCDEF: the match_id
\* bytes at [19:27) and three zero bytes after them
C16_Witness ==
    /\ args.how = "gen" /\ args.raised = ""
    /\ args.kind = Some(EXECUTED_ORDER)
    /\ Len(msg) = 30
    /\ SubSeq(msg, 20, 27) = <<1, 35, 69, 103, 137, 171, 205, 239>>
    /\ SubSeq(msg, 28, 30) = <<0, 0, 0>>
    /\ SubSeq(msg, 16, 19) = <<0, 0, 3, 232>>

\* the text s has a character outside ASCII among its first w characters
NonAsciiWithin(s, w) == \E i \in 1 .. w : i <= Len(s) /\ s[i] > 127

\* C17: encoding a fixed-width text field (stock, 8 bytes, in gen_add_order,
\* gen_trade and gen_add_order_mpid; MPID, 4 bytes, in gen_add_order_mpid):
\* an ASCII string shorter than the width is left-justified and padded on
\* the right with spaces (0x20); a longer string is cut to its first width
\* characters without an error; a string with a non-ASCII character inside
\* the kept width gives an error and no frame.
C17_TextFieldEncoding ==
    (args.how = "gen" /\ args.kind \in {Some(0), Some(5), Some(6)}) =>
        IF \/ NonAsciiWithin(args.stock, 8)
           \/ args.kind = Some(6) /\ NonAsciiWithin(args.mpid, 4)
        THEN /\ args.raised = "UnicodeEncodeError"
             /\ msg = << >>
        ELSE /\ args.raised = ""
             /\ Len(msg) \in {36, 40}
             /\ \A i \in 1 .. 8 :
                   msg[20 + i] = (IF i <= Len(args.stock) THEN args.stock[i]
                                  ELSE 32)
             /\ args.kind = Some(6) =>
                   \A i \in 1 .. 4 :
                       msg[32 + i] = (IF i <= Len(args.mpid) THEN args.mpid[i]
                                      ELSE 32)

\* gen_add_order_mpid("ABCDEFGH\u00e9" as stock, "\u00e9" as MPID) raised:
\* the stock is cut before its non-ASCII character, the MPID is not
C17_Witness ==
    /\ args.how = "gen" /\ args.kind = Some(ADD_ORDER_MPID)
    /\ args.stock = <<65, 66, 67, 68, 69, 70, 71, 72, 233>>
    /\ args.mpid = <<233>>
    /\ args.raised = "UnicodeEncodeError"
    /\ msg = << >>

\* the frame fr with the bytes of [a:b) replaced by the byte c
Overwritten(fr, a, b, c) ==
    [i \in 1 .. Len(fr) |-> IF a < i /\ i <= b THEN c ELSE fr[i]]

\* what a fresh parser decodes the whole frame fr to
Decoded(fr) == feed_all(Constructed, fr, << >>).rets[Len(fr)].ret

\* the ParsedMessage of the frame that was last fed or parsed
LastResult == IF pm.called THEN pm.ret ELSE rets[Len(rets)].ret

\* a whole frame with a string sub-field has been fed or parsed
StringFrameDone ==
    /\ WellFormed(msg)
    /\ msg[1] \in {65, 80, 70}
    /\ pm.called \/ FedAll

\* C18 (as claimed): the string sub-fields of the wire frame (stock symbol
\* at [20:28) of AddOrder, Trade and AddOrderWithMpid; attribution at
\* [32:36) of AddOrderWithMpid) are not surfaced in ParsedMessage: two
\* frames of the same kind that differ only in those bytes decode to
\* identical ParsedMessage records.
C18_StringsNotSurfaced ==
    StringFrameDone =>
        \A c \in {0, 32} :
            /\ Decoded(Overwritten(msg, 20, 28, c)) = LastResult
            /\ msg[1] = 70 => Decoded(Overwritten(msg, 32, 36, c)) = LastResult

\* C18 (amended): the stock symbol at [20:28) of Trade and the attribution
\* at [32:36) of AddOrderWithMpid are not surfaced in ParsedMessage: two
\* frames of the kind that differ only in those bytes decode to identical
\* records.  The stock symbol at [20:28) of AddOrder and AddOrderWithMpid is
\* surfaced, as misc_data, the big-endian integer of its 8 bytes: two
\* frames of the kind that differ only in those bytes decode to records
\* that differ in misc_data and in no other field.
C18_OnlyStockOfAddSurfaced ==
    StringFrameDone =>
        \A c \in {0, 32} :
            LET other == Decoded(Overwritten(msg, 20, 28, c))
            IN  /\ msg[1] = 80 => other = LastResult
                /\ msg[1] = 70 =>
                      Decoded(Overwritten(msg, 32, 36, c)) = LastResult
                /\ msg[1] \in {65, 70} =>
                      /\ [other EXCEPT !.misc_data = Zero]
                            = [LastResult EXCEPT !.misc_data = Zero]
                      /\ LastResult.misc_data = BigEndian(SubSeq(msg, 21, 28))
                      /\ other.misc_data = BigEndian([i \in 1 .. 8 |-> c])
                      /\ (other.misc_data = LastResult.misc_data)
                            <=> (SubSeq(msg, 21, 28) = [i \in 1 .. 8 |-> c])

\* the AddOrder frame of stock "APPL" was decoded: its misc_data is the
\* stock field "APPL    " as an integer, 0x4150504C20202020
C18_Witness ==
    /\ FedAll /\ args.how = "gen" /\ args.kind = Some(ADD_ORDER)
    /\ args.stock = <<65, 80, 80, 76>>
    /\ rets[Len(rets)].ret.valid
    /\ rets[Len(rets)].ret.misc_data = Nat_(<<8224, 8224, 20556, 16720>>)
    /\ Decoded(Overwritten(msg, 20, 28, 0)).misc_data = Zero

RECURSIVE RunAlone(_, _)
\* the first n calls of script made on a parser of its own: the object
\* after them and what they returned
RunAlone(script, n) ==
    IF n = 0 THEN [self |-> Constructed, rets |-> << >>]
    ELSE LET before == RunAlone(script, n - 1)
             c      == script[n]
             ret    == IF c.op = "feed"
                       THEN feed_byte(before.self, c.arg[1]).ret
                       ELSE parse_message(before.self, c.arg).ret
             self   == IF c.op = "feed"
                       THEN feed_byte(before.self, c.arg[1]).self
                       ELSE parse_message(before.self, c.arg).self
         IN  [self |-> self, rets |-> Append(before.rets, ret)]

\* C19: two parser instances share no mutable state: for any interleaving
\* of feed_byte and parse_message calls on instance 1 with calls on
\* instance 2, each instance returns the same sequence of results and
\* passes through the same states as when its own calls are run alone.
C19_InstancesIndependent ==
    \A i \in {1, 2} :
        LET alone == RunAlone(two.scripts[i], two.done[i])
        IN  /\ two.objs[i] = alone.self
            /\ two.rets[i] = alone.rets

\* both instances are in the middle of a frame, of different kinds, and
\* instance 2 has a parse_message call behind it
C19_Witness ==
    /\ two.objs[1].byte_index = 5
    /\ two.objs[1].msg_type = Some(DELETE_ORDER)
    /\ two.objs[2].byte_index = 10
    /\ two.objs[2].msg_type = Some(BROKEN_TRADE)
    /\ two.done[2] = 17
    /\ two.rets[2][7].valid
    /\ two.rets[2][7].msg_type = Some(DELETE_ORDER)

\* C20: in every state reachable by feed_byte, parse_message and reset
\* calls, observed between calls: byte_index equals the buffer length;
\* byte_index = 0 if and only if no kind is set, and then msg_length = 0
\* and the buffer is empty; and when a kind is set, msg_length is the
\* registered length of that kind, buffer[0] is that kind's tag and
\* 1 <= byte_index < msg_length.
C20_AssemblerStateInvariant ==
    /\ byte_index = Len(buffer)
    /\ byte_index = 0 <=> msg_type = None
    /\ byte_index = 0 => (msg_length = 0 /\ buffer = << >>)
    /\ msg_type # None =>
          /\ msg_type[1] \in DOMAIN TagOfKind
          /\ buffer[1] = TagOfKind[msg_type[1]]
          /\ msg_length = RegisteredLength[buffer[1]]
          /\ 1 <= byte_index
          /\ byte_index < msg_length

\* a CancelOrder frame is one byte short of complete
C20_Witness ==
    /\ ~pm.called
    /\ byte_index = 22
    /\ Len(buffer) = 22
    /\ buffer[1] = 88
    /\ msg_type = Some(CANCEL_ORDER)
    /\ msg_length = 23

\* the bytes the frame being assembled still lacks
Remaining == IF byte_index = 0 THEN 0 ELSE msg_length - byte_index

\* n bytes of value b
Fill(n, b) == [i \in 1 .. n |-> b]

\* C21: a frame completes on exactly its L-th byte: from the initial state,
\* after a recognized tag of registered length L, feed_byte returns
\* valid=False for the tag and for each of the next L-2 bytes and valid=True
\* on the (L-1)-th byte after the tag, whatever the payload bytes are; hence
\* from any reachable state the parser is back in the initial state after
\* at most 39 further feed_byte calls -- as many as the frame still lacks,
\* whatever the bytes fed are (zero, a tag, no tag).
C21_FrameCompletesOnLthByte ==
    /\ (FedAll /\ junk = 0 /\ WellFormed(msg)) =>
          /\ Len(rets) = RegisteredLength[msg[1]]
          /\ \A i \in 1 .. (Len(rets) - 1) :
                ~rets[i].ret.valid /\ rets[i].line = 156
          /\ rets[Len(rets)].ret.valid
          /\ rets[Len(rets)].line = 154
          /\ Self = Constructed
    /\ Remaining \in 0 .. 39
    /\ Remaining = 0 <=> Self = Constructed
    /\ \A b \in {0, 68, 90} :
          LET r == feed_all(Self, Fill(Remaining, b), << >>)
          IN  /\ r.self = Constructed
              /\ Len(r.rets) = Remaining
              /\ \A i \in 1 .. (Remaining - 1) :
                    ~r.rets[i].ret.valid /\ r.rets[i].line = 156
              /\ Remaining > 0 =>
                    /\ r.rets[Remaining].ret.valid
                    /\ r.rets[Remaining].line = 154
                    /\ r.rets[Remaining].ret.msg_type = msg_type

\* the tag of a Trade frame has been fed: 39 more calls, and not fewer,
\* complete the frame and bring the initial state back
C21_Witness ==
    /\ ~pm.called /\ junk = 0 /\ pos = 1
    /\ msg[1] = 80
    /\ byte_index = 1
    /\ Remaining = 39
    /\ feed_all(Self, Fill(38, 68), << >>).self.byte_index = 39
    /\ feed_all(Self, Fill(39, 68), << >>).self = Constructed
    /\ feed_all(Self, Fill(39, 68), << >>).rets[39].ret.msg_type = Some(TRADE)

RECURSIVE EndOf(_, _, _)
\* the position in the stream of the last byte of its i-th frame
EndOf(frames, g, i) ==
    IF i = 0 THEN 0
    ELSE EndOf(frames, g, i - 1) + GapLen(g, i) + Len(frames[i])

\* the valid results among rs, in call order
ValidOf(rs) == SelectSeq([i \in 1 .. Len(rs) |-> rs[i].ret], LAMBDA m : m.valid)

\* C22: feeding the concatenation of n well-formed frames f1..fn (any
\* kinds, any payloads) byte by byte to a parser in the initial state gives
\* exactly n valid results, the i-th one on the last byte of fi and equal to
\* parse_message(fi), in stream order, and leaves the parser in the initial
\* state; bytes that are no tag put between the frames change neither the
\* number, the order nor the contents of the valid results.
C22_ContinuousStream ==
    args.how = "stream" =>
        LET frames == args.frames
            n      == Len(frames)
            end(i) == EndOf(frames, args.gap, i)
            ends   == {end(i) : i \in 1 .. n}
        IN  /\ Len(rets) = pos
            /\ Len(msg) = end(n)
            /\ \A j \in 1 .. pos : rets[j].ret.valid <=> j \in ends
            /\ \A i \in 1 .. n :
                  end(i) = pos =>
                      /\ rets[pos].ret = parse_message(Constructed, frames[i]).ret
                      /\ Self = Constructed
            /\ pos = Len(msg) =>
                  /\ Len(ValidOf(rets)) = n
                  /\ \A i \in 1 .. n :
                        ValidOf(rets)[i] = parse_message(Constructed, frames[i]).ret
                  /\ ValidOf(rets)
                        = ValidOf(feed_all(Constructed, Stream(frames, 0, n),
                                           << >>).rets)

\* a CancelOrder frame whose payload is all tag bytes and, after one byte
\* that is no tag, a DeleteOrder frame went through the parser: two valid
\* results, on bytes 23 and 33
C22_Witness ==
    /\ args.how = "stream"
    /\ pos = Len(msg)
    /\ Len(args.frames) = 2
    /\ args.frames[1][1] = 88
    /\ args.frames[1][2] = 68
    /\ args.frames[2][1] = 68
    /\ Len(msg) = 33
    /\ msg[24] = 90
    /\ Len(ValidOf(rets)) = 2
    /\ rets[23].ret.msg_type = Some(CANCEL_ORDER)
    /\ rets[33].ret.msg_type = Some(DELETE_ORDER)
    /\ byte_index = 0

\* the position in d of the first tag byte, 0 when d has none
FirstTag(d) ==
    IF \E i \in 1 .. Len(d) : d[i] \in Tags
    THEN CHOOSE i \in 1 .. Len(d) :
             d[i] \in Tags /\ \A j \in 1 .. (i - 1) : d[j] \notin Tags
    ELSE 0

\* C23: the state parse_message leaves behind.  When it returns a valid
\* result the parser is in the initial state.  When it returns invalid
\* because data ended inside a started frame, the parser is left in
\* mid-frame holding the partial frame (the kind of its tag, byte_index =
\* the number of bytes taken since the tag, the tag included), so that
\* feed_byte calls made afterwards without a reset continue and complete
\* that same frame rather than starting a new one, tag bytes included.
C23_StateAfterParseMessage ==
    pm.called =>
        IF pm.ret.valid THEN Self = Constructed
        ELSE LET t == FirstTag(pm.data)
                 partial == SubSeq(pm.data, t, Len(pm.data))
             IN  IF t = 0 THEN Self = Constructed
                 ELSE /\ msg_type = Some(MSG_CHAR_TO_TYPE[pm.data[t]])
                      /\ msg_length = LengthOf(pm.data[t])
                      /\ byte_index = Len(pm.data) - t + 1
                      /\ byte_index < msg_length
                      /\ buffer = partial
                      /\ \A b \in {68, 90} :
                            LET r == feed_all(Self, Fill(Remaining, b), << >>)
                            IN  /\ \A i \in 1 .. (Remaining - 1) :
                                      r.rets[i].line = 156
                                /\ r.rets[Remaining].line = 154
                                /\ r.rets[Remaining].ret
                                      = parse_message(Constructed,
                                            partial \o Fill(Remaining, b)).ret
                                /\ r.rets[Remaining].ret.msg_type = msg_type
                                /\ r.self = Constructed

\* parse_message got a byte that is no tag and all but the last byte of a
\* CancelOrder frame: it returned invalid and left the 22 bytes of the
\* frame in the parser; one more byte, a tag, completes the CancelOrder
C23_Witness ==
    /\ pm.called
    /\ ~pm.ret.valid
    /\ Len(pm.data) = 23
    /\ pm.data[1] = 90
    /\ pm.data[2] = 88
    /\ byte_index = 22
    /\ msg_type = Some(CANCEL_ORDER)
    /\ feed_byte(Self, 68).ret.valid
    /\ feed_byte(Self, 68).ret.msg_type = Some(CANCEL_ORDER)
    /\ feed_byte(Self, 68).self = Constructed

\* every field of m but valid and msg_type has its default
OtherFieldsDefault(m) ==
    /\ m.order_ref = Zero
    /\ m.side = 0
    /\ m.shares = Zero
    /\ m.price = Zero
    /\ m.new_order_ref = Zero
    /\ m.timestamp = Zero
    /\ m.misc_data = Zero

\* the values msg_type has for the 9 kinds
KindValues == {Some(k) : k \in 0 .. 8}

\* the results the harness holds: those of the feed_byte calls and that of
\* the parse_message call, each with the first byte of the frame that a
\* valid one completed (0 when the calls so far completed no frame)
Results ==
    {[ret |-> rets[i].ret,
      first |-> IF i = junk + Len(msg) /\ msg # << >> THEN msg[1] ELSE 0] :
        i \in 1 .. Len(rets)}
    \cup (IF pm.called
          THEN {[ret |-> pm.ret,
                 first |-> IF FirstTag(pm.data) = 0 THEN 0
                           ELSE pm.data[FirstTag(pm.data)]]}
          ELSE {})

\* a valid result carries the kind the registry has for the first byte of
\* the frame
ValidKindOfTag(r) ==
    r.ret.valid =>
        /\ r.first \in DOMAIN RegistryTable
        /\ r.ret.msg_type = Some(RegistryTable[r.first][1])

\* C24 (as claimed): every result of feed_byte or parse_message with
\* valid=False carries the kind 'none', a value distinct from all 9 message
\* kinds, and all other fields at their defaults; every result with
\* valid=True carries the kind the registry assigns to the first byte of
\* the frame that just completed.
C24_InvalidKindIsNone ==
    \A r \in Results :
        /\ ~r.ret.valid =>
              /\ r.ret.msg_type \notin KindValues
              /\ OtherFieldsDefault(r.ret)
        /\ ValidKindOfTag(r)

\* C24 (amended): every result of feed_byte or parse_message with
\* valid=False carries msg_type 0, the default of the field, which is the
\* value of the kind AddOrder and so not distinct from the 9 message kinds
\* (only valid tells an invalid result from an AddOrder), and all other
\* fields at their defaults; every result with valid=True carries the kind
\* the registry assigns to the first byte of the frame that just completed.
C24_InvalidKindIsDefault ==
    \A r \in Results :
        /\ ~r.ret.valid =>
              /\ r.ret.msg_type = <<0>>
              /\ r.ret.msg_type = Some(ADD_ORDER)
              /\ r.ret.msg_type \in KindValues
              /\ OtherFieldsDefault(r.ret)
        /\ ValidKindOfTag(r)

\* a rejected byte and a BrokenTrade frame were fed: the result of the
\* rejected byte has the msg_type of AddOrder, the last one that of
\* BrokenTrade
C24_Witness ==
    /\ FedAll /\ junk = 1 /\ WellFormed(msg)
    /\ msg[1] = 66
    /\ ~rets[1].ret.valid
    /\ rets[1].line = 144
    /\ rets[1].ret.msg_type = Some(ADD_ORDER)
    /\ ~rets[2].ret.valid
    /\ rets[2].ret.msg_type = Some(ADD_ORDER)
    /\ rets[20].ret.valid
    /\ rets[20].ret.msg_type = Some(BROKEN_TRADE)

\* the byte ranges of each kind that no field of ParsedMessage is read
\* from: padding, the stock of Trade, the attribution of AddOrderWithMpid,
\* the printable byte of ExecutedWithPrice
DiscardedTable ==
    (0 :> {<<32, 36>>}) @@ (1 :> {<<19, 23>>}) @@ (2 :> {})
    @@ (3 :> {<<27, 30>>}) @@ (4 :> {}) @@ (5 :> {<<20, 28>>})
    @@ (6 :> {<<32, 36>>, <<36, 40>>}) @@ (7 :> {<<27, 28>>, <<32, 36>>})
    @@ (8 :> {<<15, 19>>})

\* the frame fr with every discarded byte of its kind replaced by c
AllOverwritten(fr, c) ==
    [i \in 1 .. Len(fr) |->
        IF \E rg \in DiscardedTable[RegistryTable[fr[1]][1]] :
               rg[1] < i /\ i <= rg[2]
        THEN c ELSE fr[i]]

\* a whole frame has been fed or parsed
FrameDone == WellFormed(msg) /\ (pm.called \/ FedAll)

\* C25: the bytes the offset table marks as unused or discarded never
\* influence the decoded record: for every kind, two completed frames that
\* differ only in padding bytes (AddOrder [32:36), CancelOrder [19:23),
\* ExecutedOrder [27:30), AddOrderWithMpid [36:40), ExecutedWithPrice
\* [32:36), BrokenTrade [15:19)), in the Trade stock bytes [20:28), in the
\* AddOrderWithMpid attribution bytes [32:36) or in the ExecutedWithPrice
\* printable byte [27] decode to identical ParsedMessage records.
C25_DiscardedBytesIgnored ==
    FrameDone =>
        \A c \in {0, 255} :
            /\ \A rg \in DiscardedTable[RegistryTable[msg[1]][1]] :
                  Decoded(Overwritten(msg, rg[1], rg[2], c)) = LastResult
            /\ Decoded(AllOverwritten(msg, c)) = LastResult

\* the ExecutedWithPrice frame of run_tests, printable 'Y', was decoded,
\* and so was the frame that differs from it in the printable byte only
C25_Witness ==
    /\ FedAll /\ args.how = "gen" /\ args.kind = Some(EXECUTED_PRICE)
    /\ msg[28] = 89
    /\ Overwritten(msg, 27, 28, 0) # msg
    /\ rets[Len(rets)].ret.valid
    /\ rets[Len(rets)].ret.misc_data = MatchIdVals[1]
    /\ Decoded(Overwritten(msg, 27, 28, 0)) = rets[Len(rets)].ret

\* the integer v is not negative and below 2^(8n) (n is even; the limbs of
\* an int hold 16 bits each and the top one is not zero)
Fits(v, n) == (~v.neg \/ v.mag = << >>) /\ 2 * Len(v.mag) <= n

\* the byte range of the frame that holds the integer argument f of kind k
FieldRange(k, f) ==
    IF f = "match_id" THEN OffsetTable[k].misc_data ELSE OffsetTable[k][f]

\* C26: the gen_* encoders never wrap or silently truncate an integer
\* field: for every integer argument that is negative or does not fit its
\* field width (timestamp 48 bits, order_ref / new_order_ref / match_id 64
\* bits, shares / price 32 bits) the encoder raises an error and returns no
\* frame, so every frame that is returned carries each integer argument
\* exactly.
C26_NoWrapNoTruncation ==
    args.how \in {"gen", "wide"} =>
        LET k   == args.kind[1]
            bad == {f \in IntFields[k] : ~Fits(args[f[1]], f[2])}
        IN  /\ bad # {} =>
                  /\ args.raised \in {"OverflowError", "UnicodeEncodeError"}
                  /\ msg = << >>
            /\ args.how = "wide" =>
                  /\ bad # {}
                  /\ args.raised = "OverflowError"
            /\ args.raised = "" =>
                  /\ bad = {}
                  /\ Len(msg) = RegisteredLength[TagOfKind[k]]
                  /\ \A f \in IntFields[k] :
                        LET rg == FieldRange(k, f[1])
                        IN  /\ rg[2] - rg[1] = f[2]
                            /\ BigEndian(SubSeq(msg, rg[1] + 1, rg[2]))
                                  = args[f[1]]

\* gen_replace_order was called with 2^64 as new_order_ref: OverflowError
\* and no frame
C26_Witness ==
    /\ args.how = "wide"
    /\ args.kind = Some(REPLACE_ORDER)
    /\ args.new_order_ref = Nat_(<<0, 0, 0, 0, 1>>)
    /\ Fits(args.order_ref, 8)
    /\ ~Fits(args.new_order_ref, 8)
    /\ args.raised = "OverflowError"
    /\ msg = << >>

====
